---------------------------- MODULE Spec2Model ----------------------------
(***************************************************************************)
(* Table extraction and answer-key correction of the quiz marker           *)
(* (extractTableAnswers, applyOCRCorrections, calculateSimilarity,         *)
(* normalizeForComparison), modelled from src/src/app.ts; the page loop of  *)
(* processQuizFolder (src/src/quizExtractor.ts), the mock switch of        *)
(* analyzeImageForForms (src/src/textract.ts) and the retry loops of       *)
(* gradeAnswersWithRetry (src/src/aiGrader.ts) and                         *)
(* gradeQuizWithVisionRetry (src/src/textract.ts).                         *)
(*                                                                         *)
(* A text is a sequence of one-character strings.  A similarity score is   *)
(* the exact fraction [num, den] of the value 1 - distance / maxLen that   *)
(* the code computes; thresholds are compared by cross-multiplication.     *)
(***************************************************************************)
EXTENDS Integers, Sequences, FiniteSets, TLC

VARIABLES
    pc,          \* position of the running call
    str1,        \* calculateSimilarity: the candidate text
    str2,        \* calculateSimilarity: the expected text
    norm1,       \* normalizeForComparison(str1)
    norm2,       \* normalizeForComparison(str2)
    sim,         \* the score returned by calculateSimilarity(str1, str2)
    maxQ,        \* extractTableAnswers: the question cap
    answerKey,   \* extractTableAnswers: the optional answer key
    answers,     \* the answer map, entries in insertion order
    expectedQ1,  \* sequential counter of columns 1-3
    expectedQ2,  \* sequential counter of columns 4-6
    row,         \* the row the loop handled last
    rowCount,    \* rows handled so far
    tableCount,  \* tables entered so far
    raw,         \* the map applyOCRCorrections received
    corrected,   \* applyOCRCorrections: the working copy
    usedAnswers, \* applyOCRCorrections: key entries already assigned
    listing,       \* processQuizFolder: the file names readdir returns
    pageFiles,     \* processQuizFolder: the optional caller-supplied order
    files,         \* processQuizFolder: the pages in processing order
    pages,         \* the pages handled so far, each with its page map
    mergedAnswers, \* processQuizFolder: the merged map
    name,          \* processQuizFolder: the student name found
    email,         \* processQuizFolder: the student email found
    useMockMode,   \* textract.ts: module-level mock switch
    saveMockData,  \* textract.ts: module-level save switch
    mockFiles,     \* the images that have saved mock data on disk
    apiCalls,      \* the images sent to the Textract API, in order
    blocksFrom,    \* where the blocks of the last analysis came from
    maxRetriesOpt, \* options.maxRetries, if given
    attempt,       \* the retry loop's counter
    lastError,     \* the retry loop's lastError
    trace,         \* the call, then its attempts and waits so far
    outcome        \* what the retry call returned or threw

simVars == <<str1, str2, norm1, norm2, sim>>

tableVars == <<maxQ, answerKey, answers, expectedQ1, expectedQ2, row,
               rowCount, tableCount>>

corrVars == <<raw, corrected, usedAnswers>>

folderVars == <<listing, pageFiles, files, pages, mergedAnswers, name, email>>

mockVars == <<useMockMode, saveMockData, mockFiles, apiCalls, blocksFrom>>

retryVars == <<maxRetriesOpt, attempt, lastError, trace, outcome>>

auxVars == <<folderVars, mockVars, retryVars>>

vars == <<pc, simVars, tableVars, corrVars, auxVars>>

---------------------------------------------------------------------------
(* Characters                                                              *)

UpperSeq ==
    <<"A","B","C","D","E","F","G","H","I","J","K","L","M",
      "N","O","P","Q","R","S","T","U","V","W","X","Y","Z">>

LowerSeq ==
    <<"a","b","c","d","e","f","g","h","i","j","k","l","m",
      "n","o","p","q","r","s","t","u","v","w","x","y","z">>

DigitSeq == <<"0","1","2","3","4","5","6","7","8","9">>

UpperSet == {UpperSeq[i] : i \in 1..26}

DigitSet == {DigitSeq[i] : i \in 1..10}

WhiteSet == {" ", "\t", "\n"}

Max(a, b) == IF a >= b THEN a ELSE b

Min(a, b) == IF a <= b THEN a ELSE b

\* String.prototype.toUpperCase, one character
ToUpperChar(c) ==
    IF \E i \in 1..26 : LowerSeq[i] = c
    THEN UpperSeq[CHOOSE i \in 1..26 : LowerSeq[i] = c]
    ELSE c

toUpperCase(s) == [i \in 1..Len(s) |-> ToUpperChar(s[i])]

\* String.prototype.trim
RECURSIVE TrimLeft(_)
TrimLeft(s) ==
    IF s # <<>> /\ Head(s) \in WhiteSet THEN TrimLeft(Tail(s)) ELSE s

RECURSIVE TrimRight(_)
TrimRight(s) ==
    IF s # <<>> /\ s[Len(s)] \in WhiteSet
    THEN TrimRight(SubSeq(s, 1, Len(s) - 1))
    ELSE s

trim(s) == TrimRight(TrimLeft(s))

\* String.prototype.startsWith
startsWith(s, p) == Len(p) <= Len(s) /\ SubSeq(s, 1, Len(p)) = p

\* String.prototype.substring(from), from a 0-based index to the end
substring(s, from) == SubSeq(s, Min(from, Len(s)) + 1, Len(s))

\* String.prototype.split on a one-character separator
RECURSIVE split(_, _)
split(s, sep) ==
    IF \E i \in 1..Len(s) : s[i] = sep
    THEN LET i == CHOOSE k \in 1..Len(s) :
                      s[k] = sep /\ \A m \in 1..(k - 1) : s[m] # sep
         IN  <<SubSeq(s, 1, i - 1)>> \o split(SubSeq(s, i + 1, Len(s)), sep)
    ELSE <<s>>

---------------------------------------------------------------------------
(* Normalization and similarity                                            *)

IsKept(c) == c \in UpperSet \cup DigitSet

\* a variant that strips before upper-casing
normalizeStripFirst(text) == toUpperCase(SelectSeq(text, IsKept))

normalizeForComparison(text) == trim(SelectSeq(toUpperCase(text), IsKept))

\* TLC evaluates the arguments of an operator only when they are read: a
\* loop's accumulator is read before the next iteration starts
Computed(v) == v = v

\* one row of the distance matrix: matrix[i][0..len2] from matrix[i-1];
\* entry k of a row is matrix[i][k - 1]
RECURSIVE LevRow(_, _, _, _, _)
LevRow(prev, c, str2s, j, acc) ==
    IF j > Len(str2s) THEN acc
    ELSE LET cost == IF c = str2s[j] THEN 0 ELSE 1
             v == Min(Min(prev[j + 1] + 1, acc[j] + 1), prev[j] + cost)
             next == Append(acc, v)
         IN  IF Computed(next) THEN LevRow(prev, c, str2s, j + 1, next)
             ELSE next

RECURSIVE LevRows(_, _, _, _)
LevRows(prev, str1s, str2s, i) ==
    IF i > Len(str1s) THEN prev
    ELSE LET next == LevRow(prev, str1s[i], str2s, 1, <<i>>)
         IN  IF Computed(next) THEN LevRows(next, str1s, str2s, i + 1)
             ELSE next

levenshteinDistance(s1, s2) ==
    LevRows([j \in 1..(Len(s2) + 1) |-> j - 1], s1, s2, 1)[Len(s2) + 1]

One == [num |-> 1, den |-> 1]

Zero == [num |-> 0, den |-> 1]

\* a > b, a >= b on scores
SimGT(a, b) == a.num * b.den > b.num * a.den

SimGE(a, b) == a.num * b.den >= b.num * a.den

IsOne(a) == a.num = a.den

IsZero(a) == a.num = 0

Alternatives(expected) ==
    LET parts == split(expected, "/")
    IN  [i \in 1..Len(parts) |-> normalizeForComparison(trim(parts[i]))]

\* the loop over the alternatives, from alternative i with the best so far
RECURSIVE SimLoop(_, _, _, _)
SimLoop(n1, alts, i, best) ==
    IF i > Len(alts) THEN best
    ELSE IF n1 = alts[i] THEN One
    ELSE IF Len(n1) = 0 \/ Len(alts[i]) = 0 THEN SimLoop(n1, alts, i + 1, best)
    ELSE LET maxLen == Max(Len(n1), Len(alts[i]))
             s == [num |-> maxLen - levenshteinDistance(n1, alts[i]),
                   den |-> maxLen]
         IN  SimLoop(n1, alts, i + 1, IF SimGT(s, best) THEN s ELSE best)

\* the same loop without the early return on an identical alternative
RECURSIVE SimLoopNoEarly(_, _, _, _)
SimLoopNoEarly(n1, alts, i, best) ==
    IF i > Len(alts) THEN best
    ELSE IF Len(n1) = 0 \/ Len(alts[i]) = 0
         THEN SimLoopNoEarly(n1, alts, i + 1, best)
    ELSE LET maxLen == Max(Len(n1), Len(alts[i]))
             s == [num |-> maxLen - levenshteinDistance(n1, alts[i]),
                   den |-> maxLen]
         IN  SimLoopNoEarly(n1, alts, i + 1, IF SimGT(s, best) THEN s ELSE best)

calculateSimilarityNoEarly(s1, s2) ==
    SimLoopNoEarly(normalizeForComparison(s1), Alternatives(s2), 1, Zero)

calculateSimilarity(s1, s2) ==
    SimLoop(normalizeForComparison(s1), Alternatives(s2), 1, Zero)

---------------------------------------------------------------------------
(* Answer maps: Record<string, string> with keys "Q<n>", as the sequence   *)
(* of its entries [q |-> n, a |-> text] in insertion order                 *)

QSet(m) == {m[i].q : i \in 1..Len(m)}

Lookup(m, n) ==
    IF n \in QSet(m) THEN m[CHOOSE i \in 1..Len(m) : m[i].q = n].a ELSE <<>>

\* answers[`Q${n}`] is truthy: present and not the empty string
Filled(m, n) == Lookup(m, n) # <<>>

\* m[`Q${n}`] = a: an existing key keeps its place, a new one goes last
Put(m, n, a) ==
    IF n \in QSet(m)
    THEN [i \in 1..Len(m) |-> IF m[i].q = n THEN [q |-> n, a |-> a] ELSE m[i]]
    ELSE Append(m, [q |-> n, a |-> a])

\* a store that appends without looking for the key
PutAlways(m, n, a) == Append(m, [q |-> n, a |-> a])

\* the answer key: given or not, and its entries as a function
NoKey == [given |-> FALSE, map |-> <<>>]

KeyOf(f) == [given |-> TRUE, map |-> f]

\* answerKey[`Q${n}`], the empty text standing for undefined
KeyText(key, n) == IF n \in DOMAIN key.map THEN key.map[n] ELSE <<>>

---------------------------------------------------------------------------
(* The row parser of extractTableAnswers                                   *)

Group1Max == 25

Group2Min == 26

MaxQuestion == 50

NaN == [nan |-> TRUE, val |-> 0]

Num(v) == [nan |-> FALSE, val |-> v]

DigitVal(c) == (CHOOSE i \in 1..10 : DigitSeq[i] = c) - 1

\* the longest prefix of digits
RECURSIVE DigitPrefix(_)
DigitPrefix(s) ==
    IF s # <<>> /\ Head(s) \in DigitSet
    THEN <<Head(s)>> \o DigitPrefix(Tail(s))
    ELSE <<>>

RECURSIVE DigitsValue(_, _)
DigitsValue(s, acc) ==
    IF s = <<>> THEN acc
    ELSE DigitsValue(Tail(s), 10 * acc + DigitVal(Head(s)))

\* parseInt(text, 10): leading white space, a sign, then digits
parseInt(text) ==
    LET t == TrimLeft(text)
        signed == t # <<>> /\ Head(t) \in {"+", "-"}
        body == IF signed THEN Tail(t) ELSE t
        digits == DigitPrefix(body)
        v == DigitsValue(digits, 0)
    IN  IF digits = <<>> THEN NaN
        ELSE Num(IF signed /\ Head(t) = "-" THEN 0 - v ELSE v)

\* col2Text.match(/^(\d+)\s/), then parseInt(match[1], 10)
LeadingNumber(text) ==
    LET digits == DigitPrefix(text)
    IN  IF /\ digits # <<>>
           /\ Len(text) > Len(digits)
           /\ text[Len(digits) + 1] \in WhiteSet
        THEN Num(DigitsValue(digits, 0))
        ELSE NaN

\* String.prototype.includes
includes(s, p) ==
    \E i \in 0..(Len(s) - Len(p)) : SubSeq(s, i + 1, i + Len(p)) = p

RECURSIVE JoinWords(_)
JoinWords(ws) ==
    IF ws = <<>> THEN <<>>
    ELSE IF Len(ws) = 1 THEN Head(ws)
    ELSE Head(ws) \o <<" ">> \o JoinWords(Tail(ws))

NonEmptyText(t) == t # <<>>

\* getText: a cell is the sequence of the texts of its CHILD WORD blocks
getText(cell) == trim(JoinWords(SelectSeq(cell, NonEmptyText)))

tANSWER == <<"A", "N", "S", "W", "E", "R">>

\* a skip test that looks for the header word in capitals only
SkippedRowCapitals(cells) ==
    \/ Len(cells) # 6
    \/ includes(getText(cells[3]), tANSWER)
    \/ includes(getText(cells[6]), tANSWER)

\* rows the loop skips: not six cells, or a header
SkippedRow(cells) ==
    \/ Len(cells) # 6
    \/ includes(toUpperCase(getText(cells[3])), tANSWER)
    \/ includes(toUpperCase(getText(cells[6])), tANSWER)

\* the question number of columns 1-3 before sequential inference
\* (0 stands for undefined)
PrintedQNum1(ans, cells) ==
    LET parsed1 == parseInt(trim(getText(cells[1])))
        inRange == ~parsed1.nan /\ parsed1.val > 0 /\ parsed1.val <= Group1Max
    IN  IF inRange /\ ~Filled(ans, parsed1.val) THEN parsed1.val
        ELSE IF inRange /\ Filled(ans, parsed1.val) THEN 0
        ELSE LET extracted == LeadingNumber(trim(getText(cells[2])))
             IN  IF /\ ~extracted.nan
                    /\ extracted.val > 0
                    /\ extracted.val <= Group1Max
                    /\ ~Filled(ans, extracted.val)
                 THEN extracted.val
                 ELSE 0

PrintedQNum2(cells) ==
    LET parsed2 == parseInt(trim(getText(cells[4])))
    IN  IF ~parsed2.nan /\ parsed2.val >= Group2Min /\ parsed2.val <= MaxQuestion
        THEN parsed2.val
        ELSE 0

\* a resolution that never falls back on the expected counter
InferNothing(qNum, answer, expectedQ, limit) == qNum

\* sequential inference without the upper limit of the group
InferNoLimit(qNum, answer, expectedQ, limit) ==
    IF qNum = 0 /\ answer # <<>> THEN expectedQ ELSE qNum

\* sequential inference
InferQNum(qNum, answer, expectedQ, limit) ==
    IF qNum = 0 /\ answer # <<>> /\ expectedQ <= limit THEN expectedQ ELSE qNum

\* a store guard that forgets the question cap
CanStoreNoCap(ans, qNum, answer, cap) ==
    qNum # 0 /\ answer # <<>> /\ ~Filled(ans, qNum)

\* a store guard that forgets the entry already there
CanStoreOverwrite(ans, qNum, answer, cap) ==
    qNum # 0 /\ qNum <= cap /\ answer # <<>>

\* a store guard that forgets to look at the answer text
CanStoreBlank(ans, qNum, answer, cap) ==
    qNum # 0 /\ qNum <= cap /\ ~Filled(ans, qNum)

CanStore(ans, qNum, answer, cap) ==
    qNum # 0 /\ qNum <= cap /\ answer # <<>> /\ ~Filled(ans, qNum)

\* columns 1-3 of one row: the map and the counter after it
Group1(ans, e1, cells, cap) ==
    LET answer1 == getText(cells[3])
        qNum1 == InferQNum(PrintedQNum1(ans, cells), answer1, e1, Group1Max)
    IN  IF CanStore(ans, qNum1, answer1, cap)
        THEN [answers |-> Put(ans, qNum1, answer1), expected |-> qNum1 + 1]
        ELSE IF answer1 # <<>>
        THEN [answers |-> ans, expected |-> e1 + 1]
        ELSE IF e1 >= 19 /\ e1 <= 22
        THEN [answers |-> ans, expected |-> e1 + 1]
        ELSE [answers |-> ans, expected |-> e1]

\* columns 4-6 with the counter left alone when the answer is not stored
Group2NoConsume(ans, e2, cells, cap) ==
    LET answer2 == getText(cells[6])
        qNum2 == InferQNum(PrintedQNum2(cells), answer2, e2, MaxQuestion)
    IN  IF CanStore(ans, qNum2, answer2, cap)
        THEN [answers |-> Put(ans, qNum2, answer2), expected |-> qNum2 + 1]
        ELSE [answers |-> ans, expected |-> e2]

\* columns 4-6 of one row
Group2(ans, e2, cells, cap) ==
    LET answer2 == getText(cells[6])
        qNum2 == InferQNum(PrintedQNum2(cells), answer2, e2, MaxQuestion)
    IN  IF CanStore(ans, qNum2, answer2, cap)
        THEN [answers |-> Put(ans, qNum2, answer2), expected |-> qNum2 + 1]
        ELSE IF answer2 # <<>>
        THEN [answers |-> ans, expected |-> e2 + 1]
        ELSE [answers |-> ans, expected |-> e2]

\* one iteration of the loop over sortedRows
RowStep(cells) ==
    /\ pc = "rows"
    /\ row' = cells
    /\ rowCount' = rowCount + 1
    /\ IF SkippedRow(cells)
       THEN UNCHANGED <<answers, expectedQ1, expectedQ2>>
       ELSE LET g1 == Group1(answers, expectedQ1, cells, maxQ)
                g2 == Group2(g1.answers, expectedQ2, cells, maxQ)
            IN  /\ answers' = g2.answers
                /\ expectedQ1' = g1.expected
                /\ expectedQ2' = g2.expected
    /\ UNCHANGED <<pc, maxQ, answerKey, tableCount, simVars, corrVars>>
    /\ UNCHANGED auxVars

---------------------------------------------------------------------------
(* applyOCRCorrections                                                     *)

MergeThreshold == [num |-> 8, den |-> 10]

HighThreshold == [num |-> 85, den |-> 100]

LowThreshold == [num |-> 5, den |-> 10]

ShiftThreshold == [num |-> 7, den |-> 10]

\* first pass, inner loop: some later unassigned key entry j matches the
\* remainder
MergeSecondHalf(remainder, key, used, i) ==
    \E j \in (i + 1)..MaxQuestion :
        /\ KeyText(key, j) # <<>>
        /\ j \notin used
        /\ LET normalizedNext == normalizeForComparison(KeyText(key, j))
           IN  \/ remainder = normalizedNext
               \/ SimGT(calculateSimilarity(remainder, normalizedNext),
                        MergeThreshold)

\* first pass, outer loop: the key entries i at which a merge is found
MergeFirstHalves(normalized, key, used) ==
    {i \in 1..MaxQuestion :
        /\ KeyText(key, i) # <<>>
        /\ i \notin used
        /\ LET normalizedCorrect == normalizeForComparison(KeyText(key, i))
           IN  /\ startsWith(normalized, normalizedCorrect)
               /\ Len(normalized) > Len(normalizedCorrect)
               /\ MergeSecondHalf(substring(normalized, Len(normalizedCorrect)),
                                  key, used, i)}

SetMin(S) == CHOOSE x \in S : \A y \in S : x <= y

\* first pass, inner loop: the later key entries j that match the remainder
MergeSecondHalves(remainder, key, used, i) ==
    {j \in (i + 1)..MaxQuestion :
        /\ KeyText(key, j) # <<>>
        /\ j \notin used
        /\ LET normalizedNext == normalizeForComparison(KeyText(key, j))
           IN  \/ remainder = normalizedNext
               \/ SimGT(calculateSimilarity(remainder, normalizedNext),
                        MergeThreshold)}

\* a first pass that marks the entry of the second half as well
RECURSIVE FirstPassMarksBoth(_, _, _, _, _)
FirstPassMarksBoth(entries, key, k, corr, used) ==
    IF k > Len(entries) THEN [corrected |-> corr, usedAnswers |-> used]
    ELSE LET e == entries[k]
             normalized == normalizeForComparison(e.a)
             found == MergeFirstHalves(normalized, key, used)
             i == SetMin(found)
             remainder ==
                 substring(normalized,
                           Len(normalizeForComparison(KeyText(key, i))))
             corrNext == IF found # {}
                         THEN Put(corr, e.q, KeyText(key, i))
                         ELSE Put(corr, e.q, e.a)
             usedNext ==
                 IF found # {}
                 THEN used \cup {i, SetMin(MergeSecondHalves(remainder, key,
                                                             used, i))}
                 ELSE used
         IN  IF Computed(corrNext) /\ Computed(usedNext)
             THEN FirstPassMarksBoth(entries, key, k + 1, corrNext, usedNext)
             ELSE [corrected |-> corrNext, usedAnswers |-> usedNext]

\* first pass over answerEntries from entry k on
RECURSIVE FirstPass(_, _, _, _, _)
FirstPass(entries, key, k, corr, used) ==
    IF k > Len(entries) THEN [corrected |-> corr, usedAnswers |-> used]
    ELSE LET e == entries[k]
             found == MergeFirstHalves(normalizeForComparison(e.a), key, used)
             corrNext == IF found # {}
                         THEN Put(corr, e.q, KeyText(key, SetMin(found)))
                         ELSE Put(corr, e.q, e.a)
             usedNext == IF found # {} THEN used \cup {SetMin(found)} ELSE used
         IN  IF Computed(corrNext) /\ Computed(usedNext)
             THEN FirstPass(entries, key, k + 1, corrNext, usedNext)
             ELSE [corrected |-> corrNext, usedAnswers |-> usedNext]

\* a second pass that also corrects in the ambiguous zone
SecondPassTextLow(e, key) ==
    LET expectedAnswer == KeyText(key, e.q)
    IN  IF expectedAnswer = <<>> THEN e.a
        ELSE IF SimGE(calculateSimilarity(e.a, expectedAnswer), LowThreshold)
        THEN expectedAnswer
        ELSE e.a

\* second pass: the text one entry is left with
SecondPassText(e, key) ==
    LET expectedAnswer == KeyText(key, e.q)
    IN  IF expectedAnswer = <<>> THEN e.a
        ELSE IF /\ SimGE(calculateSimilarity(e.a, expectedAnswer), HighThreshold)
                /\ normalizeForComparison(e.a)
                       # normalizeForComparison(expectedAnswer)
             THEN expectedAnswer
             ELSE e.a

\* a second pass that blanks the slots the key has no entry for
SecondPassKnownOnly(corr, key) ==
    [k \in 1..Len(corr) |->
        [q |-> corr[k].q,
         a |-> IF KeyText(key, corr[k].q) = <<>> THEN <<>>
               ELSE SecondPassText(corr[k], key)]]

SecondPass(corr, key) ==
    [k \in 1..Len(corr) |-> [q |-> corr[k].q, a |-> SecondPassText(corr[k], key)]]

\* a fragment test without the minimum length
IsFragmentAnyLength(normalized, normalizedExpected) ==
    /\ startsWith(normalizedExpected, normalized)
    /\ Len(normalized) < Len(normalizedExpected)

\* third pass: extracted is an incomplete fragment of expected
IsFragment(normalized, normalizedExpected) ==
    /\ startsWith(normalizedExpected, normalized)
    /\ Len(normalized) < Len(normalizedExpected)
    /\ Len(normalized) > 3

\* third pass: the split test at question qNum
SplitAt(corr, key, qNum) ==
    LET extracted == Lookup(corr, qNum)
        expected == KeyText(key, qNum)
        normalized == normalizeForComparison(extracted)
        normalizedExpected == normalizeForComparison(expected)
        nextExtracted == Lookup(corr, qNum + 1)
        normalizedNext == normalizeForComparison(nextExtracted)
        remainder == substring(normalizedExpected, Len(normalized))
    IN  /\ extracted # <<>>
        /\ expected # <<>>
        /\ IsFragment(normalized, normalizedExpected)
        /\ nextExtracted # <<>>
        /\ (normalizedNext = remainder \/ startsWith(normalizedNext, remainder))

\* the alternatives of shiftExpected that the next cell starts with
MatchedAlts(shiftExpected, normalizedExtracted) ==
    LET alternatives == Alternatives(shiftExpected)
    IN  {a \in 1..Len(alternatives) :
            startsWith(normalizedExtracted, alternatives[a])}

\* a shift loop that leaves the remainder of a merged cell unused
RECURSIVE ShiftLoopNoRemainder(_, _, _, _)
ShiftLoopNoRemainder(corr, key, shiftNum, final) ==
    IF shiftNum >= MaxQuestion THEN final
    ELSE
    LET shiftExpected == KeyText(key, shiftNum)
        shiftNextExtracted == Lookup(corr, shiftNum + 1)
        similarity == calculateSimilarity(shiftNextExtracted, shiftExpected)
        matched == MatchedAlts(shiftExpected,
                               normalizeForComparison(shiftNextExtracted))
        next == Put(final, shiftNum, shiftExpected)
    IN  IF shiftExpected = <<>> \/ shiftNextExtracted = <<>> THEN final
        ELSE IF SimGT(similarity, ShiftThreshold) \/ matched # {}
        THEN IF Computed(next)
             THEN ShiftLoopNoRemainder(corr, key, shiftNum + 1, next)
             ELSE next
        ELSE final

\* a shift loop that passes over an index without a match and goes on
RECURSIVE ShiftLoopNoHalt(_, _, _, _)
ShiftLoopNoHalt(corr, key, shiftNum, final) ==
    IF shiftNum >= MaxQuestion THEN final
    ELSE
    LET shiftExpected == KeyText(key, shiftNum)
        shiftNextExtracted == Lookup(corr, shiftNum + 1)
        similarity == calculateSimilarity(shiftNextExtracted, shiftExpected)
        matched == MatchedAlts(shiftExpected,
                               normalizeForComparison(shiftNextExtracted))
        next == IF /\ shiftExpected # <<>>
                   /\ shiftNextExtracted # <<>>
                   /\ (SimGT(similarity, ShiftThreshold) \/ matched # {})
                THEN Put(final, shiftNum, shiftExpected)
                ELSE final
    IN  IF Computed(next) THEN ShiftLoopNoHalt(corr, key, shiftNum + 1, next)
        ELSE next

\* a shift loop that moves the next cell's text into the slot instead of
\* writing the expected answer
RECURSIVE ShiftLoopMovesText(_, _, _, _)
ShiftLoopMovesText(corr, key, shiftNum, final) ==
    IF shiftNum >= MaxQuestion THEN final
    ELSE
    LET shiftExpected == KeyText(key, shiftNum)
        shiftNextExtracted == Lookup(corr, shiftNum + 1)
        similarity == calculateSimilarity(shiftNextExtracted, shiftExpected)
        matched == MatchedAlts(shiftExpected,
                               normalizeForComparison(shiftNextExtracted))
        next == Put(final, shiftNum, shiftNextExtracted)
    IN  IF shiftExpected = <<>> \/ shiftNextExtracted = <<>> THEN final
        ELSE IF SimGT(similarity, ShiftThreshold) \/ matched # {}
        THEN IF Computed(next)
             THEN ShiftLoopMovesText(corr, key, shiftNum + 1, next)
             ELSE next
        ELSE final

\* third pass: the shift loop from shiftNum on
RECURSIVE ShiftLoop(_, _, _, _)
ShiftLoop(corr, key, shiftNum, final) ==
    IF shiftNum >= MaxQuestion THEN final
    ELSE
    LET shiftExpected == KeyText(key, shiftNum)
        shiftNextExtracted == Lookup(corr, shiftNum + 1)
        similarity == calculateSimilarity(shiftNextExtracted, shiftExpected)
        normalizedExtracted == normalizeForComparison(shiftNextExtracted)
        alternatives == Alternatives(shiftExpected)
        matched == MatchedAlts(shiftExpected, normalizedExtracted)
        startsWithExpected == matched # {}
        matchedAlt == alternatives[SetMin(matched)]
        remainder == trim(substring(shiftNextExtracted, Len(matchedAlt)))
        nextNextExpected == KeyText(key, shiftNum + 1)
        shifted == Put(final, shiftNum, shiftExpected)
        fromRemainder ==
            /\ startsWithExpected
            /\ matchedAlt # <<>>
            /\ Len(normalizedExtracted) > Len(matchedAlt)
            /\ remainder # <<>>
            /\ nextNextExpected # <<>>
            /\ SimGT(calculateSimilarity(remainder, nextNextExpected),
                     ShiftThreshold)
        next == IF fromRemainder
                THEN Put(shifted, shiftNum + 1, nextNextExpected)
                ELSE shifted
    IN  IF shiftExpected = <<>> \/ shiftNextExtracted = <<>> THEN final
        ELSE IF SimGT(similarity, ShiftThreshold) \/ startsWithExpected
        THEN IF Computed(next) THEN ShiftLoop(corr, key, shiftNum + 1, next)
             ELSE next
        ELSE final

\* a scan that goes on at qNum + 1 after a split
RECURSIVE ThirdPassNoSkip(_, _, _, _)
ThirdPassNoSkip(corr, key, qNum, final) ==
    IF qNum > MaxQuestion THEN final
    ELSE IF SplitAt(corr, key, qNum)
    THEN LET next == ShiftLoop(corr, key, qNum + 1,
                               Put(final, qNum, KeyText(key, qNum)))
         IN  IF Computed(next) THEN ThirdPassNoSkip(corr, key, qNum + 1, next)
             ELSE next
    ELSE ThirdPassNoSkip(corr, key, qNum + 1, final)

\* third pass: the scan from question qNum on; after a split is resolved
\* at qNum the scan goes on at qNum + 2
RECURSIVE ThirdPassFrom(_, _, _, _)
ThirdPassFrom(corr, key, qNum, final) ==
    IF qNum > MaxQuestion THEN final
    ELSE IF SplitAt(corr, key, qNum)
    THEN LET next == ShiftLoop(corr, key, qNum + 1,
                               Put(final, qNum, KeyText(key, qNum)))
         IN  IF Computed(next) THEN ThirdPassFrom(corr, key, qNum + 2, next)
             ELSE next
    ELSE ThirdPassFrom(corr, key, qNum + 1, final)

\* a third pass whose result starts empty instead of as a copy of corrected
ThirdPassFromEmpty(corr, key) == ThirdPassFrom(corr, key, 1, <<>>)

ThirdPass(corr, key) == ThirdPassFrom(corr, key, 1, corr)

\* the fixed corrections of the earlier applyOCRCorrections, which took no
\* answer key
LegacyCorrections(ans) ==
    [k \in 1..Len(ans) |->
        [q |-> ans[k].q,
         a |-> IF trim(ans[k].a) = <<"I", "N", "S", "T", "A", "N", "T">>
               THEN <<"I", "N", "S", "T", "A", "N", "T", " ",
                      "R", "E", "P", "L", "A", "Y">>
               ELSE ans[k].a]]

\* without an answer key the map is returned as it is
NoKeyResult(ans) == ans

\* the whole function
applyOCRCorrections(ans, key) ==
    IF ~key.given THEN NoKeyResult(ans)
    ELSE LET p1 == FirstPass(ans, key, 1, <<>>, {})
             p2 == SecondPass(p1.corrected, key)
         IN  ThirdPass(p2, key)

---------------------------------------------------------------------------
(* Texts of the answer sheets and answer keys drawn as inputs              *)

wBACK == <<"B", "A", "C", "K">>

wSTABBERS == <<"S", "T", "A", "B", "B", "E", "R", "S">>

wTHE == <<"T", "H", "E">>

wRIDDLE == <<"R", "I", "D", "D", "L", "E">>

wHAPPY == <<"H", "A", "P", "P", "Y">>

wDAYS == <<"D", "A", "Y", "S">>

wGLORY == <<"G", "L", "O", "R", "Y">>

wINSTANT == <<"I", "N", "S", "T", "A", "N", "T">>

wREPLAY == <<"R", "E", "P", "L", "A", "Y">>

wHapy == <<"H", "a", "p", "y">>

wDays == <<"D", "a", "y", "s">>

wWhat == <<"W", "h", "a", "t">>

Sp == <<" ">>

tBACK_STABBERS == wBACK \o Sp \o wSTABBERS

tTHE_RIDDLE == wTHE \o Sp \o wRIDDLE

tHAPPY_DAYS == wHAPPY \o Sp \o wDAYS

tRIDDLE_HAPPY == tTHE_RIDDLE \o Sp \o tHAPPY_DAYS

tGLORY_OR_HAPPY == wGLORY \o <<"/">> \o tHAPPY_DAYS

tINSTANT_REPLAY == wINSTANT \o Sp \o wREPLAY

\* the decimal digits of n, as a printed question number
RECURSIVE Digits(_)
Digits(n) ==
    IF n < 10 THEN <<DigitSeq[n + 1]>>
    ELSE Digits(n \div 10) \o <<DigitSeq[(n % 10) + 1]>>

---------------------------------------------------------------------------
(* The extraction call: tables, rows, then the correction passes           *)

MaxRows == 2

MaxTables == 2

MaxQs == {2, 27, 100}

SheetKey ==
    KeyOf((1 :> tBACK_STABBERS) @@ (2 :> tTHE_RIDDLE) @@ (3 :> tHAPPY_DAYS)
          @@ (26 :> tGLORY_OR_HAPPY) @@ (27 :> tINSTANT_REPLAY))

Keys == {NoKey, SheetKey}

\* columns 1-3: question-number cell, question-text cell, answer cell
Group1Cells ==
    { <<<<>>, <<wWhat>>, <<wBACK>>>>,
      <<<<>>, <<wWhat>>, <<wSTABBERS>>>>,
      <<<<Digits(3)>>, <<wWhat>>, <<wTHE, wRIDDLE, wHAPPY, wDAYS>>>>,
      <<<<>>, <<Digits(3), wWhat>>, <<wHapy, wDays>>>>,
      <<<<Digits(1)>>, <<wWhat>>, <<>>>> }

\* columns 4-6
Group2Cells ==
    { <<<<Digits(26)>>, <<wWhat>>, <<wGLORY>>>>,
      <<<<>>, <<wWhat>>, <<wINSTANT>>>>,
      <<<<>>, <<wWhat>>, <<>>>> }

HeaderRow == <<<<>>, <<wWhat>>, <<tANSWER>>, <<>>, <<wWhat>>, <<tANSWER>>>>

ShortRow == <<<<Digits(1)>>, <<wWhat>>, <<wBACK>>, <<Digits(26)>>, <<wWhat>>>>

Rows == {g1 \o g2 : g1 \in Group1Cells, g2 \in Group2Cells}
            \cup {HeaderRow, ShortRow}

SimIdle ==
    /\ str1 = <<>>
    /\ str2 = <<>>
    /\ norm1 = <<>>
    /\ norm2 = <<>>
    /\ sim = [num |-> 0, den |-> 0]

FolderIdle ==
    /\ listing = {}
    /\ pageFiles = [given |-> FALSE, list |-> <<>>]
    /\ files = <<>>
    /\ pages = <<>>
    /\ mergedAnswers = <<>>
    /\ name = <<>>
    /\ email = <<>>

MockIdle ==
    /\ useMockMode = FALSE
    /\ saveMockData = FALSE
    /\ mockFiles = {}
    /\ apiCalls = <<>>
    /\ blocksFrom = "none"

RetryIdle ==
    /\ maxRetriesOpt = [given |-> FALSE, val |-> 0]
    /\ attempt = 0
    /\ lastError = "null"
    /\ trace = <<>>
    /\ outcome = [kind |-> "none", value |-> "none"]

Init ==
    /\ pc = "rows"
    /\ maxQ \in MaxQs
    /\ answerKey \in Keys
    /\ answers = <<>>
    /\ expectedQ1 = 0
    /\ expectedQ2 = 0
    /\ row = <<>>
    /\ rowCount = 0
    /\ tableCount = 0
    /\ raw = <<>>
    /\ corrected = <<>>
    /\ usedAnswers = {}
    /\ SimIdle
    /\ FolderIdle
    /\ MockIdle
    /\ RetryIdle

\* the loop over the TABLE blocks enters the next table
EnterTable ==
    /\ pc = "rows"
    /\ tableCount < MaxTables
    /\ tableCount' = tableCount + 1
    /\ expectedQ1' = 1
    /\ expectedQ2' = Group2Min
    /\ UNCHANGED <<pc, maxQ, answerKey, answers, row, rowCount, simVars,
                   corrVars>>
    /\ UNCHANGED auxVars

ProcessRow ==
    /\ tableCount >= 1
    /\ rowCount < MaxRows
    /\ \E cells \in Rows : RowStep(cells)

\* the tables are exhausted: applyOCRCorrections is called, if a key is given
EndRows ==
    /\ pc = "rows"
    /\ raw' = answers
    /\ IF answerKey.given
       THEN pc' = "pass1" /\ UNCHANGED answers
       ELSE pc' = "done" /\ answers' = NoKeyResult(answers)
    /\ UNCHANGED <<maxQ, answerKey, expectedQ1, expectedQ2, row, rowCount,
                   tableCount, corrected, usedAnswers, simVars>>
    /\ UNCHANGED auxVars

MergePass ==
    /\ pc = "pass1"
    /\ LET p1 == FirstPass(answers, answerKey, 1, <<>>, {})
       IN  /\ corrected' = p1.corrected
           /\ usedAnswers' = p1.usedAnswers
    /\ pc' = "pass2"
    /\ UNCHANGED <<raw, tableVars, simVars>>
    /\ UNCHANGED auxVars

FuzzyPass ==
    /\ pc = "pass2"
    /\ corrected' = SecondPass(corrected, answerKey)
    /\ pc' = "pass3"
    /\ UNCHANGED <<raw, usedAnswers, tableVars, simVars>>
    /\ UNCHANGED auxVars

SplitPass ==
    /\ pc = "pass3"
    /\ answers' = ThirdPass(corrected, answerKey)
    /\ pc' = "done"
    /\ UNCHANGED <<maxQ, answerKey, expectedQ1, expectedQ2, row, rowCount,
                   tableCount, corrVars, simVars>>
    /\ UNCHANGED auxVars

Next ==
    \/ EnterTable
    \/ ProcessRow
    \/ EndRows
    \/ MergePass
    \/ FuzzyPass
    \/ SplitPass

Spec == Init /\ [][Next]_vars

---------------------------------------------------------------------------
(* One well-formed table: a header row, then 25 six-cell data rows         *)

\* the answer written in row r of a column-group (1 or 2)
SheetAnswer(r, group) ==
    LET n == IF group = 1 THEN r ELSE Group1Max + r
    IN  IF r % 4 = 0 THEN <<Digits(n)>>
        ELSE IF r % 4 = 1 THEN <<wBACK, Digits(n)>>
        ELSE IF r % 4 = 2 THEN <<wHapy, wDays, Digits(n)>>
        ELSE <<<<"m", "o", "n", "e", "y", ",">>, Digits(n), <<".">>>>

\* a printed number cell: the right number, or text parseInt cannot read
NumberCells(n) == {<<Digits(n)>>, <<>>, <<<<"l">>>>, <<<<"Q">>, Digits(n)>>}

\* data row r in every reading of its two number cells
DataRows(r) ==
    {<<c1, <<wWhat>>, SheetAnswer(r, 1), c4, <<wWhat, Digits(r)>>,
       SheetAnswer(r, 2)>> :
        c1 \in NumberCells(r), c4 \in NumberCells(Group1Max + r)}

\* the rows that may stand at position k of the table
TableRows(k) == IF k = 1 THEN {HeaderRow} ELSE DataRows(k - 1)

InitTable ==
    /\ pc = "rows"
    /\ maxQ = MaxQuestion
    /\ answerKey = NoKey
    /\ answers = <<>>
    /\ expectedQ1 = 0
    /\ expectedQ2 = 0
    /\ row = <<>>
    /\ rowCount = 0
    /\ tableCount = 0
    /\ raw = <<>>
    /\ corrected = <<>>
    /\ usedAnswers = {}
    /\ SimIdle
    /\ FolderIdle
    /\ MockIdle
    /\ RetryIdle

EnterSheetTable == tableCount = 0 /\ EnterTable

ProcessSheetRow ==
    /\ tableCount = 1
    /\ rowCount <= Group1Max
    /\ \E cells \in TableRows(rowCount + 1) : RowStep(cells)

EndSheet == rowCount = Group1Max + 1 /\ EndRows

NextTable == EnterSheetTable \/ ProcessSheetRow \/ EndSheet

SpecTable == InitTable /\ [][NextTable]_vars

---------------------------------------------------------------------------
(* applyOCRCorrections on maps drawn against an answer key                 *)

Songs ==
    <<
       <<"C", "R", "U", "E", "L", " ", "S", "U", "M", "M", "E", "R">>,
       <<"W", "A", "T", "E", "R", "L", "O", "O">>,
       <<"F", "E", "R", "N", "A", "N", "D", "O">>,
       <<"M", "A", "M", "M", "A", " ", "M", "I", "A">>,
       <<"C", "H", "I", "Q", "U", "I", "T", "I", "T", "A">>,
       <<"V", "O", "U", "L", "E", "Z", " ", "V", "O", "U", "S">>,
       <<"S", "U", "P", "E", "R", " ", "T", "R", "O", "U", "P", "E", "R">>,
       <<"I", "N", "S", "T", "A", "N", "T", " ", "R", "E", "P", "L", "A", "Y">>,
       <<"C", "H", "I", "N", "A", " ", "I", "N", " ", "Y", "O", "U", "R", " ", "H", "A", "N", "D">>,
       <<"T", "H", "E", " ", "E", "D", "G", "E", " ", "O", "F", " ", "H", "E", "A", "V", "E", "N">>,
       <<"G", "L", "O", "R", "Y">>,
       <<"M", "O", "N", "E", "Y", ",", " ", "M", "O", "N", "E", "Y", ",", " ", "M", "O", "N", "E", "Y">>,
       <<"D", "A", "N", "C", "I", "N", "G", " ", "Q", "U", "E", "E", "N">>,
       <<"T", "A", "K", "E", " ", "A", " ", "C", "H", "A", "N", "C", "E">>,
       <<"S", "O", "S">>
    >>

\* the songs are the expected answers of the last questions of the sheet
FirstSong == MaxQuestion - Len(Songs) + 1

\* a key for questions 36..50, with the entries of over put in
SongKey(over) ==
    KeyOf([n \in FirstSong..MaxQuestion |->
              IF n \in DOMAIN over THEN over[n] ELSE Songs[n - FirstSong + 1]])

MergeKeyShort == KeyOf((36 :> wBACK) @@ (37 :> wSTABBERS))

MergeKeyFull == SongKey((36 :> wBACK) @@ (37 :> wSTABBERS))

SplitKeyShort == KeyOf((37 :> tTHE_RIDDLE) @@ (38 :> tHAPPY_DAYS))

SplitKeyFull == SongKey((37 :> tTHE_RIDDLE) @@ (38 :> tHAPPY_DAYS))

\* the cells of questions 36..50 when cell n holds the key's text for
\* question n + d (d = 0: every answer in its own cell), cell at holding
\* text instead
SongCells(key, d, at, text) ==
    [k \in 1..(MaxQuestion - FirstSong + 1) |->
        LET n == FirstSong + k - 1
        IN  [q |-> n,
             a |-> IF n = at THEN text
                   ELSE IF (n + d) \in DOMAIN key.map THEN key.map[n + d]
                   ELSE <<"L", "A", "S", "T">>]]

Offsets == {0 - 1, 0, 1}

MergeScenarios ==
    {[key |-> k, map |-> SongCells(MergeKeyFull, d, 36, tBACK_STABBERS)] :
        k \in {MergeKeyShort, MergeKeyFull}, d \in Offsets}

SplitScenarios ==
    {[key |-> k, map |-> SongCells(SplitKeyFull, d, 37, tRIDDLE_HAPPY)] :
        k \in {SplitKeyShort, SplitKeyFull}, d \in Offsets}

ConcatKey == KeyOf((1 :> wBACK) @@ (2 :> wSTABBERS) @@ (3 :> tBACK_STABBERS))

AlternativeKey ==
    KeyOf((1 :> wGLORY) @@ (2 :> tHAPPY_DAYS) @@ (3 :> tGLORY_OR_HAPPY))

ExactKeys == {SheetKey, ConcatKey, AlternativeKey}

\* the entries of key for the questions of qs, ascending: every answer is
\* the expected text of its own question
RECURSIVE ExactMap(_, _)
ExactMap(key, qs) ==
    IF qs = {} THEN <<>>
    ELSE <<[q |-> SetMin(qs), a |-> KeyText(key, SetMin(qs))]>>
             \o ExactMap(key, qs \ {SetMin(qs)})

ExactMaps(key) ==
    {[key |-> key, map |-> ExactMap(key, qs)] :
        qs \in (SUBSET DOMAIN key.map) \ {{}}}

ExactScenarios == UNION {ExactMaps(k) : k \in ExactKeys}

SongOf(n) == Songs[n - FirstSong + 1]

wFERNANDO == SongOf(38)

wNANDO == <<"N", "A", "N", "D", "O">>

\* Q38 has two accepted answers
CascadeKey == SongKey(38 :> (wFERNANDO \o <<"/">> \o wNANDO))

\* Q36's answer is split over cells 36 and 37, cell 38 holds Q37's answer,
\* cell 39 holds text, and cell n >= 40 holds the key's text for n + d
CascadeCells(text, d) ==
    [k \in 1..(MaxQuestion - FirstSong + 1) |->
        LET n == FirstSong + k - 1
        IN  [q |-> n,
             a |-> IF n = 36 THEN <<"C", "R", "U", "E", "L">>
                   ELSE IF n = 37 THEN <<"S", "U", "M", "M", "E", "R">>
                   ELSE IF n = 38 THEN SongOf(37)
                   ELSE IF n = 39 THEN text
                   ELSE IF (n + d) \in DOMAIN CascadeKey.map
                   THEN CascadeKey.map[n + d]
                   ELSE <<"L", "A", "S", "T">>]]

\* what cell 39 may hold: Q38's answer followed by more text, or alone
CascadeTexts ==
    { wFERNANDO \o Sp \o SongOf(39),
      wNANDO \o Sp \o SongOf(39),
      wFERNANDO \o Sp \o SongOf(40),
      wFERNANDO }

CascadeScenarios ==
    {[key |-> k, map |-> CascadeCells(text, d)] :
        k \in {CascadeKey, SongKey(<<>>)}, text \in CascadeTexts, d \in {0, 1}}

NotQ40(e) == e.q # 40

BlankQ40(m) ==
    [k \in 1..Len(m) |-> IF m[k].q = 40 THEN [q |-> 40, a |-> <<>>] ELSE m[k]]

\* the cascade sheets with question 40 missing from the map, or present
\* with an empty answer
SparseScenarios ==
    {[key |-> sc.key, map |-> SelectSeq(sc.map, NotQ40)] :
        sc \in CascadeScenarios}
        \cup {[key |-> sc.key, map |-> BlankQ40(sc.map)] :
                  sc \in CascadeScenarios}

\* misread cells: Q38 one letter off, Q39 two letters off, Q41 holding the
\* answer of Q40, Q42 differing in case and punctuation only
FuzzyTexts ==
    (38 :> <<"F", "E", "R", "N", "A", "N", "D", "A">>)
        @@ (39 :> <<"M", "A", "M", "A", " ", "M", "Y", "A">>)
        @@ (41 :> SongOf(40))
        @@ (42 :> <<"s", "u", "p", "e", "r", " ", "t", "r", "o", "u", "p",
                    "e", "r", ".">>)

FuzzyCells(misread) ==
    [k \in 1..(MaxQuestion - FirstSong + 1) |->
        LET n == FirstSong + k - 1
        IN  [q |-> n,
             a |-> IF n \in misread THEN FuzzyTexts[n] ELSE SongOf(n)]]

FuzzyScenarios ==
    {[key |-> SongKey(<<>>), map |-> FuzzyCells(misread)] :
        misread \in (SUBSET DOMAIN FuzzyTexts) \ {{}}}

\* the song sheet with the cells of over put in
SongSheet(over) ==
    [k \in 1..(MaxQuestion - FirstSong + 1) |->
        LET n == FirstSong + k - 1
        IN  [q |-> n, a |-> IF n \in DOMAIN over THEN over[n] ELSE SongOf(n)]]

\* Q36's answer CRUEL SUMMER cut after 3, 4 or 5 characters, the next cell
\* holding the rest, the rest and more, or another answer
FragmentSheets ==
    { (36 :> <<"C", "R", "U">>)
          @@ (37 :> <<"E", "L", " ", "S", "U", "M", "M", "E", "R">>),
      (36 :> <<"C", "R", "U", "E">>)
          @@ (37 :> <<"L", " ", "S", "U", "M", "M", "E", "R">>),
      (36 :> <<"C", "R", "U", "E", "L">>),
      (36 :> <<"C", "R", "U", "E", "L">>)
          @@ (37 :> <<"S", "U", "M", "M", "E", "R", " ", "N", "O", "W">>) }

FragmentScenarios ==
    {[key |-> SongKey(<<>>), map |-> SongSheet(over)] : over \in FragmentSheets}

tLAST == <<"L", "A", "S", "T">>

\* a split at Q36, cell 38 holding Q37's answer, then the cells of halt
\* unreadable, and from cell 40 on each cell holding the answer of the
\* question before it
HaltSheet(halt) ==
    [n \in 36..43 |->
        IF n = 36 THEN <<"C", "R", "U", "E", "L">>
        ELSE IF n = 37 THEN <<"S", "U", "M", "M", "E", "R">>
        ELSE IF n \in halt THEN tLAST
        ELSE SongOf(n - 1)]

HaltScenarios ==
    {[key |-> SongKey(<<>>), map |-> SongSheet(HaltSheet(halt))] :
        halt \in {{}, {39}, {40}, {39, 41}}}

wSUMMER == <<"S", "U", "M", "M", "E", "R">>

wNIGHTS == <<"N", "I", "G", "H", "T", "S">>

\* Q37's expected answer starts with the second word of Q36's
ResumeKey == SongKey(37 :> (wSUMMER \o Sp \o wNIGHTS))

\* Q36 split over cells 36 and 37; cell 37 is itself a fragment of Q37's
\* answer with cell 38 holding the rest; further splits at Q38 or Q40
ResumeSheets ==
    { (36 :> <<"C", "R", "U", "E", "L">>) @@ (37 :> wSUMMER) @@ (38 :> wNIGHTS),
      (36 :> <<"C", "R", "U", "E", "L">>) @@ (37 :> wSUMMER)
          @@ (38 :> <<"F", "E", "R", "N">>) @@ (39 :> <<"A", "N", "D", "O">>),
      (36 :> <<"C", "R", "U", "E", "L">>) @@ (37 :> wSUMMER) @@ (38 :> wNIGHTS)
          @@ (40 :> <<"C", "H", "I", "Q">>)
          @@ (41 :> <<"U", "I", "T", "I", "T", "A">>) }

ResumeScenarios ==
    {[key |-> ResumeKey, map |-> SongSheet(over)] : over \in ResumeSheets}

\* keys with entries missing, empty, or without a letter or digit
EdgeKeys ==
    { KeyOf(<<>>),
      KeyOf((36 :> <<>>) @@ (37 :> SongOf(37)) @@ (39 :> SongOf(39))),
      SongKey((37 :> <<"/">>) @@ (40 :> <<"?">>)) }

\* the empty map, and sheets with cells that normalize to the empty string
EdgeMaps ==
    { <<>>,
      SongSheet((36 :> <<"-">>) @@ (38 :> <<"?", "!">>)),
      SongSheet((37 :> <<".", ".", ".">>) @@ (40 :> <<"-">>) @@ (41 :> <<"/">>)) }

EdgeScenarios == {[key |-> k, map |-> m] : k \in EdgeKeys, m \in EdgeMaps}

Scenarios ==
    MergeScenarios \cup SplitScenarios \cup ExactScenarios
        \cup CascadeScenarios \cup SparseScenarios \cup FuzzyScenarios
        \cup FragmentScenarios \cup HaltScenarios \cup ResumeScenarios
        \cup EdgeScenarios

InitCorr ==
    /\ pc = "pass1"
    /\ maxQ = MaxQuestion
    /\ \E sc \in Scenarios :
          /\ answerKey = sc.key
          /\ answers = sc.map
          /\ raw = sc.map
    /\ expectedQ1 = 0
    /\ expectedQ2 = 0
    /\ row = <<>>
    /\ rowCount = 0
    /\ tableCount = 0
    /\ corrected = <<>>
    /\ usedAnswers = {}
    /\ SimIdle
    /\ FolderIdle
    /\ MockIdle
    /\ RetryIdle

NextCorr == MergePass \/ FuzzyPass \/ SplitPass

SpecCorr == InitCorr /\ [][NextCorr]_vars

\* the order of the passes
PassAfter(p) ==
    IF p = "pass1" THEN "pass2" ELSE IF p = "pass2" THEN "pass3" ELSE "done"

\* the pass in progress comes to its end
PassEnds == pc \in {"pass1", "pass2", "pass3"} /\ pc' = PassAfter(pc)

\* each pass is a loop over at most MaxQuestion keys or over the entries of
\* the map, so a pass that has started runs to its end.  NextCorr is
\* enabled exactly where pc names a pass, and each of its steps moves pc as
\* PassEnds says, so the condition is weak fairness of NextCorr, stated on pc.
SpecCorrLive == SpecCorr /\ WF_pc(PassEnds)

---------------------------------------------------------------------------
(* processQuizFolder: the page loop and the merge                          *)

TableIdle ==
    /\ maxQ = MaxQuestion
    /\ answerKey = NoKey
    /\ answers = <<>>
    /\ expectedQ1 = 0
    /\ expectedQ2 = 0
    /\ row = <<>>
    /\ rowCount = 0
    /\ tableCount = 0

CorrIdle ==
    /\ raw = <<>>
    /\ corrected = <<>>
    /\ usedAnswers = {}

\* the characters of the model in ascending UTF-16 code unit order
CodeOrder == <<" ", ",", ".", "/">> \o DigitSeq \o UpperSeq \o LowerSeq

CharCode(c) == CHOOSE i \in 1..Len(CodeOrder) : CodeOrder[i] = c

\* a < b as Array.prototype.sort() without a comparator orders strings
RECURSIVE CodeLess(_, _)
CodeLess(a, b) ==
    IF b = <<>> THEN FALSE
    ELSE IF a = <<>> THEN TRUE
    ELSE IF Head(a) # Head(b) THEN CharCode(Head(a)) < CharCode(Head(b))
    ELSE CodeLess(Tail(a), Tail(b))

\* .sort() of distinct names
RECURSIVE Sorted(_)
Sorted(S) ==
    IF S = {} THEN <<>>
    ELSE LET first == CHOOSE x \in S : \A y \in S \ {x} : CodeLess(x, y)
         IN  <<first>> \o Sorted(S \ {first})

endsWith(s, p) ==
    Len(s) >= Len(p) /\ SubSeq(s, Len(s) - Len(p) + 1, Len(s)) = p

ImageExtensions ==
    {<<".", "J", "P", "G">>, <<".", "J", "P", "E", "G">>, <<".", "P", "N", "G">>,
     <<".", "T", "I", "F", "F">>, <<".", "B", "M", "P">>}

\* /\.(jpg|jpeg|png|tiff|bmp)$/i.test(f)
IsImage(f) == \E ext \in ImageExtensions : endsWith(toUpperCase(f), ext)

\* a merge that leaves the identifiers it already has alone
RECURSIVE AssignMissing(_, _)
AssignMissing(target, source) ==
    IF source = <<>> THEN target
    ELSE AssignMissing(
             IF Head(source).q \in QSet(target) THEN target
             ELSE Put(target, Head(source).q, Head(source).a),
             Tail(source))

\* Object.assign(target, source)
RECURSIVE ObjectAssign(_, _)
ObjectAssign(target, source) ==
    IF source = <<>> THEN target
    ELSE ObjectAssign(Put(target, Head(source).q, Head(source).a), Tail(source))

\* the answers of one page: the table's, else those of the key-value pairs
PageAnswers(content) ==
    IF Len(content.table) = 0 THEN content.kv ELSE content.table

FirstFound(current, found) ==
    IF current = <<>> /\ found # <<>> THEN found ELSE current

ResolveFiles(given, dir) ==
    IF given.given THEN given.list ELSE Sorted({f \in dir : IsImage(f)})

MaxPages == 2

FileNames ==
    {<<"2", ".", "j", "p", "g">>, <<"1", "0", ".", "j", "p", "g">>,
     <<"B", ".", "P", "N", "G">>, <<"a", ".", "j", "p", "e", "g">>, <<"n", ".", "t", "x", "t">>}

Listings ==
    {S \in SUBSET FileNames : Cardinality({f \in S : IsImage(f)}) <= MaxPages}

RECURSIVE OrdersOf(_, _)
OrdersOf(S, n) ==
    IF n = 0 THEN {<<>>}
    ELSE {<<>>} \cup
         UNION {{<<f>> \o rest : rest \in OrdersOf(S \ {f}, n - 1)} : f \in S}

PageOrders ==
    {[given |-> FALSE, list |-> <<>>]} \cup
    {[given |-> TRUE, list |-> o] :
        o \in OrdersOf({f \in FileNames : IsImage(f)}, MaxPages)}

Entry(n, text) == [q |-> n, a |-> text]

\* what analyzeImageForForms and the extractors make of a page
PageContents ==
    {[table |-> <<Entry(1, wBACK), Entry(2, wSTABBERS)>>, kv |-> <<>>,
      name |-> <<"A", "n", "n">>, email |-> <<>>],
     [table |-> <<Entry(3, tHAPPY_DAYS), Entry(2, wGLORY)>>,
      kv |-> <<Entry(9, wINSTANT)>>,
      name |-> <<"B", "o", "b">>, email |-> <<"b", "@", "x">>],
     [table |-> <<>>, kv |-> <<Entry(1, <<>>), Entry(4, wINSTANT)>>,
      name |-> <<>>, email |-> <<"a", "@", "x">>],
     [table |-> <<>>, kv |-> <<>>, name |-> <<>>, email |-> <<>>]}

InitFolder ==
    /\ pc = "folder"
    /\ listing \in Listings
    /\ pageFiles \in PageOrders
    /\ files = <<>>
    /\ pages = <<>>
    /\ mergedAnswers = <<>>
    /\ name = <<>>
    /\ email = <<>>
    /\ TableIdle
    /\ CorrIdle
    /\ SimIdle
    /\ MockIdle
    /\ RetryIdle

\* the caller's list, or the folder's image files sorted
ListFiles ==
    /\ pc = "folder"
    /\ files' = ResolveFiles(pageFiles, listing)
    /\ pc' = "pages"
    /\ UNCHANGED <<listing, pageFiles, pages, mergedAnswers, name, email>>
    /\ UNCHANGED <<simVars, tableVars, corrVars, mockVars, retryVars>>

\* one iteration of the loop over files
ProcessPage ==
    /\ pc = "pages"
    /\ Len(pages) < Len(files)
    /\ \E content \in PageContents :
          /\ name' = FirstFound(name, content.name)
          /\ email' = FirstFound(email, content.email)
          /\ mergedAnswers' = ObjectAssign(mergedAnswers, PageAnswers(content))
          /\ pages' = Append(pages, [file |-> files[Len(pages) + 1],
                                     answers |-> PageAnswers(content)])
    /\ UNCHANGED <<pc, listing, pageFiles, files>>
    /\ UNCHANGED <<simVars, tableVars, corrVars, mockVars, retryVars>>

\* the loop is over: the merged map is returned
ReturnMerged ==
    /\ pc = "pages"
    /\ Len(pages) = Len(files)
    /\ pc' = "merged"
    /\ UNCHANGED <<folderVars, simVars, tableVars, corrVars, mockVars, retryVars>>

NextFolder == ListFiles \/ ProcessPage \/ ReturnMerged

SpecFolder == InitFolder /\ [][NextFolder]_vars

---------------------------------------------------------------------------
(* analyzeImageForForms and the mock switches                              *)

MaxCalls == 2

Images == {f \in FileNames : IsImage(f)}

InitMock ==
    /\ pc = "textract"
    /\ useMockMode = FALSE
    /\ saveMockData = FALSE
    /\ mockFiles \in SUBSET Images
    /\ apiCalls = <<>>
    /\ blocksFrom = "none"
    /\ TableIdle
    /\ CorrIdle
    /\ SimIdle
    /\ FolderIdle
    /\ RetryIdle

setMockMode(enabled) ==
    /\ pc = "textract"
    /\ useMockMode' = enabled
    /\ UNCHANGED <<pc, saveMockData, mockFiles, apiCalls, blocksFrom>>
    /\ UNCHANGED <<simVars, tableVars, corrVars, folderVars, retryVars>>

setSaveMockData(enabled) ==
    /\ pc = "textract"
    /\ saveMockData' = enabled
    /\ UNCHANGED <<pc, useMockMode, mockFiles, apiCalls, blocksFrom>>
    /\ UNCHANGED <<simVars, tableVars, corrVars, folderVars, retryVars>>

\* useMockMode && existsSync(mockPath)
LoadsMock(image) == useMockMode /\ image \in mockFiles

\* the blocks are read from the saved file (or reading it throws)
AnalyzeFromMock(image) ==
    /\ pc = "textract"
    /\ LoadsMock(image)
    /\ blocksFrom' \in {"mock", "error"}
    /\ UNCHANGED <<pc, useMockMode, saveMockData, mockFiles, apiCalls>>
    /\ UNCHANGED <<simVars, tableVars, corrVars, folderVars, retryVars>>

\* the image cannot be read: the call throws before the request is sent
AnalyzeUnreadable(image) ==
    /\ pc = "textract"
    /\ ~LoadsMock(image)
    /\ blocksFrom' = "error"
    /\ UNCHANGED <<pc, useMockMode, saveMockData, mockFiles, apiCalls>>
    /\ UNCHANGED <<simVars, tableVars, corrVars, folderVars, retryVars>>

\* the request is sent; on an answer the blocks are saved if saving is on
AnalyzeByApi(image) ==
    /\ pc = "textract"
    /\ ~LoadsMock(image)
    /\ Len(apiCalls) < MaxCalls
    /\ apiCalls' = Append(apiCalls, image)
    /\ \/ blocksFrom' = "error" /\ UNCHANGED mockFiles
       \/ /\ blocksFrom' = "api"
          /\ mockFiles' = IF saveMockData THEN mockFiles \cup {image}
                          ELSE mockFiles
    /\ UNCHANGED <<pc, useMockMode, saveMockData>>
    /\ UNCHANGED <<simVars, tableVars, corrVars, folderVars, retryVars>>

NextMock ==
    \/ \E enabled \in BOOLEAN : setMockMode(enabled)
    \/ \E enabled \in BOOLEAN : setSaveMockData(enabled)
    \/ \E image \in Images : AnalyzeFromMock(image)
    \/ \E image \in Images : AnalyzeUnreadable(image)
    \/ \E image \in Images : AnalyzeByApi(image)

SpecMock == InitMock /\ [][NextMock]_vars

---------------------------------------------------------------------------
(* gradeAnswersWithRetry and gradeQuizWithVisionRetry                      *)

DefaultRetries == 3

\* options.maxRetries || 3
maxRetries(opt) == IF opt.given /\ opt.val # 0 THEN opt.val ELSE DefaultRetries

\* Math.min(1000 * 2 ** (attempt - 1), 5000)
BackoffDelay(n) == Min(1000 * 2 ^ (n - 1), 5000)

\* a loop that waits after every failed attempt
WaitsAlways(n, limit) == TRUE

\* if (attempt < maxRetries): wait before the next attempt
WaitsAfter(n, limit) == n < limit

MaxRetriesInput == 5

RetryOptions ==
    {[given |-> FALSE, val |-> 0]} \cup
    {[given |-> TRUE, val |-> v] : v \in 0..MaxRetriesInput}

Graders == {"gradeAnswers", "gradeQuizWithVision"}

GradingErrors == {"timeout", "rate limit"}

GradingResults == {"all correct", "two wrong"}

InitRetry ==
    /\ pc = "call"
    /\ maxRetriesOpt \in RetryOptions
    /\ attempt = 0
    /\ lastError = "null"
    /\ trace = <<>>
    /\ outcome = [kind |-> "none", value |-> "none"]
    /\ TableIdle
    /\ CorrIdle
    /\ SimIdle
    /\ FolderIdle
    /\ MockIdle

\* one of the two retry wrappers is called
CallRetry(fn) ==
    /\ pc = "call"
    /\ trace' = <<[kind |-> "call", fn |-> fn]>>
    /\ attempt' = 1
    /\ lastError' = "null"
    /\ pc' = "attempting"
    /\ UNCHANGED <<maxRetriesOpt, outcome>>
    /\ UNCHANGED <<simVars, tableVars, corrVars, folderVars, mockVars>>

\* the grader returns: so does the wrapper
AttemptSucceeds(result) ==
    /\ pc = "attempting"
    /\ attempt <= maxRetries(maxRetriesOpt)
    /\ trace' = Append(trace, [kind |-> "attempt", ok |-> TRUE, value |-> result])
    /\ outcome' = [kind |-> "returned", value |-> result]
    /\ pc' = "finished"
    /\ UNCHANGED <<maxRetriesOpt, attempt, lastError>>
    /\ UNCHANGED <<simVars, tableVars, corrVars, folderVars, mockVars>>

\* the grader throws: the error is kept, and a wait follows or the next turn
AttemptFails(err) ==
    /\ pc = "attempting"
    /\ attempt <= maxRetries(maxRetriesOpt)
    /\ trace' = Append(trace, [kind |-> "attempt", ok |-> FALSE, value |-> err])
    /\ lastError' = err
    /\ IF WaitsAfter(attempt, maxRetries(maxRetriesOpt))
       THEN pc' = "waiting" /\ UNCHANGED attempt
       ELSE pc' = "attempting" /\ attempt' = attempt + 1
    /\ UNCHANGED <<maxRetriesOpt, outcome>>
    /\ UNCHANGED <<simVars, tableVars, corrVars, folderVars, mockVars>>

\* the timer of the backoff fires
Wait ==
    /\ pc = "waiting"
    /\ trace' = Append(trace, [kind |-> "wait", ok |-> FALSE,
                               value |-> BackoffDelay(attempt)])
    /\ attempt' = attempt + 1
    /\ pc' = "attempting"
    /\ UNCHANGED <<maxRetriesOpt, lastError, outcome>>
    /\ UNCHANGED <<simVars, tableVars, corrVars, folderVars, mockVars>>

\* the loop is over: throw lastError || new Error(...)
GiveUp ==
    /\ pc = "attempting"
    /\ attempt > maxRetries(maxRetriesOpt)
    /\ outcome' = [kind |-> "thrown",
                   value |-> IF lastError # "null" THEN lastError
                             ELSE "failed after all retries"]
    /\ pc' = "finished"
    /\ UNCHANGED <<maxRetriesOpt, attempt, lastError, trace>>
    /\ UNCHANGED <<simVars, tableVars, corrVars, folderVars, mockVars>>

NextRetry ==
    \/ \E fn \in Graders : CallRetry(fn)
    \/ \E result \in GradingResults : AttemptSucceeds(result)
    \/ \E err \in GradingErrors : AttemptFails(err)
    \/ Wait
    \/ GiveUp

\* every awaited promise settles: the grader answers or throws, the timer fires
SpecRetry == InitRetry /\ [][NextRetry]_vars /\ WF_vars(NextRetry)

---------------------------------------------------------------------------
(* Inputs of the numbering specification: one table whose rows carry       *)
(* repeated printed numbers, numbers inside the question text and empty    *)
(* answer cells                                                            *)

MaxSheetRows == 3

\* columns 1-3
NumberedGroup1 ==
    { <<<<Digits(18)>>, <<wWhat>>, <<wBACK>>>>,
      <<<<Digits(18)>>, <<Digits(20), wWhat>>, <<wSTABBERS>>>>,
      <<<<<<"l">>>>, <<Digits(3), wWhat>>, <<wHapy, wDays>>>>,
      <<<<>>, <<wWhat>>, <<wTHE, wRIDDLE>>>>,
      <<<<>>, <<wWhat>>, <<>>>>,
      <<<<Digits(1)>>, <<wWhat>>, <<>>>>,
      <<<<Digits(Group1Max)>>, <<wWhat>>, <<wGLORY>>>> }

\* columns 4-6
NumberedGroup2 ==
    { <<<<Digits(26)>>, <<wWhat>>, <<wGLORY>>>>,
      <<<<>>, <<Digits(30), wWhat>>, <<wINSTANT>>>>,
      <<<<>>, <<wWhat>>, <<>>>>,
      <<<<Digits(26)>>, <<wWhat>>, <<>>>>,
      <<<<Digits(MaxQuestion)>>, <<wWhat>>, <<wGLORY>>>> }

wAnswer == <<"A", "n", "s", "w", "e", "r">>

\* rows the loop passes over: five cells, seven cells, the header word in
\* column 3 beside an answer in column 6, and in column 6 beside an answer
\* in column 3
PassedOverRows ==
    { <<<<Digits(18)>>, <<wWhat>>, <<wBACK>>, <<Digits(26)>>, <<wWhat>>>>,
      <<<<Digits(18)>>, <<wWhat>>, <<wBACK>>, <<Digits(26)>>, <<wWhat>>,
        <<wGLORY>>, <<wGLORY>>>>,
      <<<<>>, <<wWhat>>, <<wAnswer>>, <<>>, <<wWhat>>, <<wGLORY>>>>,
      <<<<Digits(18)>>, <<wWhat>>, <<wBACK>>, <<>>, <<wWhat>>,
        <<<<"a", "n", "s", "w", "e", "r", "s">>>>>> }

NumberedRows ==
    {g1 \o g2 : g1 \in NumberedGroup1, g2 \in NumberedGroup2}
        \cup PassedOverRows

\* the caller's cap: below the numbers printed on the sheet, the default,
\* or above the sheet's last question
NumberingCaps == {Group1Max - 7, MaxQuestion, 2 * MaxQuestion}

InitNumbering ==
    /\ pc = "rows"
    /\ maxQ \in NumberingCaps
    /\ answerKey = NoKey
    /\ answers = <<>>
    /\ expectedQ1 = 0
    /\ expectedQ2 = 0
    /\ row = <<>>
    /\ rowCount = 0
    /\ tableCount = 0
    /\ raw = <<>>
    /\ corrected = <<>>
    /\ usedAnswers = {}
    /\ SimIdle
    /\ FolderIdle
    /\ MockIdle
    /\ RetryIdle

EnterNumberedTable == tableCount = 0 /\ EnterTable

ProcessNumberedRow ==
    /\ tableCount = 1
    /\ rowCount < MaxSheetRows
    /\ \E cells \in NumberedRows : RowStep(cells)

EndNumbered == tableCount = 1 /\ EndRows

NextNumbering == EnterNumberedTable \/ ProcessNumberedRow \/ EndNumbered

SpecNumbering == InitNumbering /\ [][NextNumbering]_vars

---------------------------------------------------------------------------
(* Inputs of the similarity specification                                  *)

MaxLen == 3

SimAlphabet == {"a", "A", "1", " ", ".", "/"}

RECURSIVE TextsOfLen(_, _)
TextsOfLen(alphabet, n) ==
    IF n = 0 THEN {<<>>}
    ELSE {Append(t, c) : t \in TextsOfLen(alphabet, n - 1), c \in alphabet}

TextsUpTo(alphabet, n) == UNION {TextsOfLen(alphabet, k) : k \in 0..n}

SimTexts == TextsUpTo(SimAlphabet, MaxLen)

NoSim == [num |-> 0, den |-> 0]

InitSim ==
    /\ pc = "input"
    /\ str1 \in SimTexts
    /\ str2 \in SimTexts
    /\ norm1 = <<>>
    /\ norm2 = <<>>
    /\ sim = NoSim
    /\ maxQ = 0
    /\ answerKey = NoKey
    /\ answers = <<>>
    /\ expectedQ1 = 0
    /\ expectedQ2 = 0
    /\ row = <<>>
    /\ rowCount = 0
    /\ tableCount = 0
    /\ raw = <<>>
    /\ corrected = <<>>
    /\ usedAnswers = {}
    /\ FolderIdle
    /\ MockIdle
    /\ RetryIdle

Normalize ==
    /\ pc = "input"
    /\ norm1' = normalizeForComparison(str1)
    /\ norm2' = normalizeForComparison(str2)
    /\ pc' = "normalized"
    /\ UNCHANGED <<str1, str2, sim, tableVars, corrVars>>
    /\ UNCHANGED auxVars

Compare ==
    /\ pc = "normalized"
    /\ sim' = calculateSimilarity(str1, str2)
    /\ pc' = "compared"
    /\ UNCHANGED <<str1, str2, norm1, norm2, tableVars, corrVars>>
    /\ UNCHANGED auxVars

NextSim == Normalize \/ Compare

SpecSim == InitSim /\ [][NextSim]_vars

---------------------------------------------------------------------------
(* Properties of extraction (Spec, SpecTable)                              *)

\* C1: every key Qn of the map satisfies n <= maxQ, in the raw row-parsed
\* map and in the map the three correction passes leave.
C1_KeysWithinCap ==
    /\ \A n \in QSet(answers) : n <= maxQ
    /\ \A n \in QSet(corrected) : n <= maxQ

\* the corrections changed the map of a sheet capped at 2 questions whose
\* last row carried an answer for a question above the cap
C1_Witness ==
    /\ pc = "done"
    /\ answerKey.given
    /\ maxQ = 2
    /\ answers # raw
    /\ QSet(answers) = {1, 2}
    /\ Len(row) = 6
    /\ getText(row[6]) # <<>>
    /\ expectedQ2 > maxQ

\* C5: while rows are parsed, an entry of the map is never changed or
\* removed by a later row or a later table: first assignment wins.
C5_FirstAssignmentWins ==
    [][(pc = "rows" /\ pc' = "rows") =>
          \A i \in 1..Len(answers) :
              /\ i <= Len(answers')
              /\ answers'[i] = answers[i]]_vars

\* the last row printed 26 beside GLORY when Q26 already held INSTANT
C5_Witness ==
    /\ pc = "rows"
    /\ Len(row) = 6
    /\ PrintedQNum2(row) = Group2Min
    /\ getText(row[6]) = wGLORY
    /\ Lookup(answers, Group2Min) = wINSTANT

\* the data rows of the table read so far
DataRowsRead == IF rowCount = 0 THEN 0 ELSE rowCount - 1

\* C6: a header row and 25 well-formed data rows, maxQ = 50 and no key,
\* give exactly the keys Q1..Q50, Qr holding row r's column-3 text and
\* Q(25+r) row r's column-6 text; on the way there, the map holds exactly
\* the two entries of every data row read so far.
C6_WellFormedTable ==
    /\ pc = "done" => DataRowsRead = Group1Max /\ Len(answers) = MaxQuestion
    /\ QSet(answers) =
          (1..DataRowsRead) \cup (Group2Min..(Group1Max + DataRowsRead))
    /\ \A r \in 1..DataRowsRead :
          /\ Lookup(answers, r) = getText(SheetAnswer(r, 1))
          /\ Lookup(answers, Group1Max + r) = getText(SheetAnswer(r, 2))

\* the table is read to its end, its last row with both number cells
\* unreadable
C6_Witness ==
    /\ pc = "done"
    /\ rowCount = Group1Max + 1
    /\ parseInt(getText(row[1])).nan
    /\ parseInt(getText(row[4])).nan
    /\ Lookup(answers, MaxQuestion) = getText(row[6])
    /\ Len(answers) = MaxQuestion

\* C7: without an answer key the map returned is the raw row-parsed map,
\* entry for entry.
C7_NoKeyNoOp ==
    (pc = "done" /\ ~answerKey.given) => answers = raw

\* a map with INSTANT among its answers is returned without a key
C7_Witness ==
    /\ pc = "done"
    /\ ~answerKey.given
    /\ Len(answers) >= 2
    /\ \E i \in 1..Len(answers) : answers[i].a = wINSTANT
    /\ answers = raw

---------------------------------------------------------------------------
(* Properties of correction (SpecCorr)                                     *)

\* every answer of m is the key's expected text of its own question
AllExact(m, key) ==
    \A i \in 1..Len(m) : m[i].a # <<>> /\ m[i].a = KeyText(key, m[i].q)

\* C2: a map in which every answer equals the key's expected text of its
\* own question comes back from the three passes identical.
C2_ExactMapUnchanged ==
    (pc = "done" /\ AllExact(raw, answerKey)) => answers = raw

\* C3: with Q36 extracted as BACK STABBERS and the key giving Q36 = BACK,
\* Q37 = STABBERS, correction leaves Q36 = BACK, Q37 = STABBERS, Q38..Q49
\* each holding the next cell's earlier content, and no Q50.
C3_MergeShiftsEarlier ==
    (/\ pc = "done"
     /\ Lookup(raw, 36) = tBACK_STABBERS
     /\ KeyText(answerKey, 36) = wBACK
     /\ KeyText(answerKey, 37) = wSTABBERS)
        => /\ Lookup(answers, 36) = wBACK
           /\ Lookup(answers, 37) = wSTABBERS
           /\ \A k \in 38..49 : Lookup(answers, k) = Lookup(raw, k + 1)
           /\ 50 \notin QSet(answers)

\* C4: with Q37 extracted as THE RIDDLE HAPPY DAYS and the key giving
\* Q37 = THE RIDDLE, Q38 = HAPPY DAYS, correction leaves Q37 = THE RIDDLE,
\* Q38 = HAPPY DAYS and every later question holding the earlier content
\* of the question before it.
C4_SplitShiftsForward ==
    (/\ pc = "done"
     /\ Lookup(raw, 37) = tRIDDLE_HAPPY
     /\ KeyText(answerKey, 37) = tTHE_RIDDLE
     /\ KeyText(answerKey, 38) = tHAPPY_DAYS)
        => /\ Lookup(answers, 37) = tTHE_RIDDLE
           /\ Lookup(answers, 38) = tHAPPY_DAYS
           /\ \A k \in 39..MaxQuestion : Lookup(answers, k) = Lookup(raw, k - 1)

---------------------------------------------------------------------------
(* Properties of the folder merge (SpecFolder)                             *)

\* the pages among ps whose page map has question n
PagesWith(ps, n) == {i \in 1..Len(ps) : n \in QSet(ps[i].answers)}

EntryOf(m, n) == m[CHOOSE i \in 1..Len(m) : m[i].q = n]

LastPage(ps, n) ==
    CHOOSE i \in PagesWith(ps, n) : \A j \in PagesWith(ps, n) : j <= i

\* C11: the pages are handled strictly in list order (the caller's order,
\* else the image file names sorted), and for every identifier the merged
\* answer is that of the last page whose map has it; an earlier page's
\* entry stays only if no later page has the identifier.
C11_LastPageWins ==
    pc \in {"pages", "merged"} =>
        /\ pageFiles.given => files = pageFiles.list
        /\ ~pageFiles.given =>
              /\ {files[i] : i \in 1..Len(files)} = {f \in listing : IsImage(f)}
              /\ \A i \in 1..(Len(files) - 1) : CodeLess(files[i], files[i + 1])
        /\ Len(pages) <= Len(files)
        /\ \A i \in 1..Len(pages) : pages[i].file = files[i]
        /\ QSet(mergedAnswers) =
              UNION {QSet(pages[i].answers) : i \in 1..Len(pages)}
        /\ \A n \in QSet(mergedAnswers) :
              EntryOf(mergedAnswers, n).a =
                  EntryOf(pages[LastPage(pages, n)].answers, n).a

\* two pages gave different answers to Q2, the merged map has the second
\* page's, and Q1 of the first page alone is still there
C11_Witness ==
    /\ pc = "merged"
    /\ ~pageFiles.given
    /\ Len(pages) = 2
    /\ Lookup(pages[1].answers, 2) = wSTABBERS
    /\ Lookup(pages[2].answers, 2) = wGLORY
    /\ Lookup(mergedAnswers, 2) = wGLORY
    /\ Lookup(mergedAnswers, 1) = wBACK
    /\ CodeLess(pages[1].file, pages[2].file)

---------------------------------------------------------------------------
(* Properties of the mock switch (SpecMock)                                *)

\* C12: with mock mode enabled analyzeImageForForms sends no request to
\* the Textract API for any image: no step taken in mock mode adds a call.
C12_MockModeNoApiCall ==
    [][useMockMode => apiCalls' = apiCalls]_vars

---------------------------------------------------------------------------
(* Properties of the retry loops (SpecRetry)                               *)

AttemptsIn(tr) == {i \in 1..Len(tr) : tr[i].kind = "attempt"}

WaitsIn(tr) == {i \in 1..Len(tr) : tr[i].kind = "wait"}

\* what the four parts of the claim say of a run that may make limit attempts
RetryContract(limit) ==
    /\ Cardinality(AttemptsIn(trace)) <= limit
    /\ \A i \in AttemptsIn(trace) : trace[i].ok => i = Len(trace)
    /\ outcome.kind = "returned" =>
          /\ trace[Len(trace)].kind = "attempt"
          /\ trace[Len(trace)].ok
          /\ outcome.value = trace[Len(trace)].value
    /\ \A i \in WaitsIn(trace) :
          /\ trace[i - 1].kind = "attempt"
          /\ i = Len(trace) => pc = "attempting"
    /\ \A i \in AttemptsIn(trace) :
          (i > 2) => trace[i - 1].kind = "wait"
    /\ pc = "finished" => trace[Len(trace)].kind # "wait"
    /\ (pc = "finished" /\ outcome.kind # "returned") =>
          /\ outcome.kind = "thrown"
          /\ Cardinality(AttemptsIn(trace)) = limit
          /\ trace[Len(trace)].kind = "attempt"
          /\ outcome.value = trace[Len(trace)].value

\* C13 as stated: at most maxRetries attempts (3 when unspecified), none
\* after a success, whose result is returned; waits between attempts, not
\* after the last; when all fail, the last attempt's error is thrown.
C13_RetryAnyLimit ==
    RetryContract(IF maxRetriesOpt.given THEN maxRetriesOpt.val
                  ELSE DefaultRetries)

\* C13 amended: the same for maxRetries unspecified or at least 1, and
\* the call always ends.
C13_RetryBounded ==
    /\ []((~maxRetriesOpt.given \/ maxRetriesOpt.val >= 1) =>
             RetryContract(IF maxRetriesOpt.given THEN maxRetriesOpt.val
                           ELSE DefaultRetries))
    /\ <>(pc = "finished")

\* two failures, each followed by a wait, then a third failure: the call
\* with no maxRetries given throws the third error
C13_Witness ==
    /\ pc = "finished"
    /\ ~maxRetriesOpt.given
    /\ Cardinality(AttemptsIn(trace)) = DefaultRetries
    /\ Cardinality(WaitsIn(trace)) = DefaultRetries - 1
    /\ trace[2].value = "timeout"
    /\ outcome = [kind |-> "thrown", value |-> "rate limit"]

---------------------------------------------------------------------------
(* Properties of question-number resolution                                *)

NumberCell(group) == IF group = 1 THEN 1 ELSE 4

QuestionCell(group) == NumberCell(group) + 1

AnswerCell(group) == NumberCell(group) + 2

GroupLow(group) == IF group = 1 THEN 1 ELSE Group2Min

GroupHigh(group) == IF group = 1 THEN Group1Max ELSE MaxQuestion

CounterOf(group) == IF group = 1 THEN expectedQ1 ELSE expectedQ2

InGroup(n, group) == ~n.nan /\ n.val >= GroupLow(group) /\ n.val <= GroupHigh(group)

PrintedOf(cells, group) == parseInt(trim(getText(cells[NumberCell(group)])))

LeadingOf(cells, group) ==
    LeadingNumber(trim(getText(cells[QuestionCell(group)])))

AnswerOf(cells, group) == getText(cells[AnswerCell(group)])

\* the step reads one data row
RowRead == pc = "rows" /\ rowCount' = rowCount + 1 /\ ~SkippedRow(row')

\* the printed number of the row read is in range and already assigned
PrintedAssigned(group) ==
    /\ InGroup(PrintedOf(row', group), group)
    /\ Filled(answers, PrintedOf(row', group).val)

\* the question text of the row read starts with a usable number
LeadingUsable(group) ==
    /\ InGroup(LeadingOf(row', group), group)
    /\ ~Filled(answers, LeadingOf(row', group).val)

\* the number the later sources give: the leading number, else the counter
FallbackNumber(group) ==
    IF LeadingUsable(group) THEN LeadingOf(row', group).val
    ELSE CounterOf(group)

FallsThrough(group) ==
    (/\ RowRead
     /\ PrintedAssigned(group)
     /\ AnswerOf(row', group) # <<>>
     /\ FallbackNumber(group) <= GroupHigh(group)
     /\ FallbackNumber(group) <= maxQ
     /\ ~Filled(answers, FallbackNumber(group)))
        => Lookup(answers', FallbackNumber(group)) = AnswerOf(row', group)

\* C14: in either column group, when the printed number is in range but
\* already assigned, a non-empty answer of the row is recorded under the
\* fallback number (the leading number of the question text, else the
\* sequential counter) when that number is unassigned and within the cap.
C14_AssignedFallsThrough == [][\A group \in {1, 2} : FallsThrough(group)]_vars

\* C15: a row whose answer cell for a column group is empty leaves that
\* group's sequential counter as it was, whatever the counter's value and
\* whatever the number cells hold.
C15_EmptyAnswerKeepsCounter ==
    [][\A group \in {1, 2} :
          (RowRead /\ AnswerOf(row', group) = <<>>)
              => CounterOf(group)' = CounterOf(group)]_vars

\* the printed number of the row read is unreadable, out of range or taken
PrintedUnusable(group) ==
    \/ ~InGroup(PrintedOf(row', group), group)
    \/ PrintedAssigned(group)

UsesLeading(group) ==
    (/\ RowRead
     /\ PrintedUnusable(group)
     /\ LeadingUsable(group)
     /\ AnswerOf(row', group) # <<>>
     /\ LeadingOf(row', group).val <= maxQ)
        => /\ Lookup(answers', LeadingOf(row', group).val)
                  = AnswerOf(row', group)
           /\ CounterOf(group)' = LeadingOf(row', group).val + 1

\* C19: in either column group, when the printed number is not usable, a
\* number at the start of the question text that is in the group's range
\* and unassigned becomes the row's question number, ahead of the counter.
C19_LeadingNumberUsed == [][\A group \in {1, 2} : UsesLeading(group)]_vars

\* the step records an answer of the group under number n
RecordedUnder(group, n) ==
    /\ n >= GroupLow(group)
    /\ n <= GroupHigh(group)
    /\ n \notin QSet(answers)
    /\ n \in QSet(answers')

CounterAfterAnswer(group) ==
    (RowRead /\ AnswerOf(row', group) # <<>>)
        => IF \E n \in 1..MaxQuestion : RecordedUnder(group, n)
           THEN \A n \in 1..MaxQuestion :
                    RecordedUnder(group, n)
                        => /\ Lookup(answers', n) = AnswerOf(row', group)
                           /\ CounterOf(group)' = n + 1
           ELSE CounterOf(group)' = CounterOf(group) + 1

\* C25: when a non-empty answer is recorded under number n the group's
\* counter becomes n + 1; when a non-empty answer is not recorded the counter
\* goes up by exactly one.
C25_CounterAdvance == [][\A group \in {1, 2} : CounterAfterAnswer(group)]_vars

\* the last row's BACK was recorded as Q18 and the counter stands at 19; its
\* GLORY, printed 26, was not recorded because Q26 was taken, and the
\* counter went from 27 to 28
C25_Witness ==
    /\ pc = "rows"
    /\ rowCount = 2
    /\ PrintedOf(row, 1).val = 18
    /\ Lookup(answers, 18) = AnswerOf(row, 1)
    /\ expectedQ1 = 19
    /\ ~PrintedOf(row, 2).nan
    /\ AnswerOf(row, 2) # <<>>
    /\ Filled(answers, Group2Min)
    /\ Lookup(answers, Group2Min) # AnswerOf(row, 2)
    /\ expectedQ2 = Group2Min + 2

\* the identifiers the step adds to the map
AddedKeys == QSet(answers') \ QSet(answers)

WrittenByGroup(n, group) ==
    /\ n >= GroupLow(group)
    /\ n <= GroupHigh(group)
    /\ Lookup(answers', n) = AnswerOf(row', group)

\* C26: columns 1-3 only ever assign Q1..Q25 and columns 4-6 only Q26..Q50,
\* whichever source the number came from; the map never holds a key above
\* Q50, even under a larger cap, and the groups never write the same key.
C26_GroupRanges ==
    [][/\ QSet(answers') \subseteq 1..MaxQuestion
       /\ RowRead
             => /\ \A n \in AddedKeys :
                       WrittenByGroup(n, 1) \/ WrittenByGroup(n, 2)
                /\ Cardinality(AddedKeys) <= 2]_vars

\* under a cap above 50 both counters have run off the end of their ranges
\* and the answers of the last row, which had no printed numbers, are in the
\* map under no key
C26_Witness ==
    /\ pc = "rows"
    /\ maxQ > MaxQuestion
    /\ expectedQ1 > Group1Max + 1
    /\ expectedQ2 > MaxQuestion + 1
    /\ PrintedOf(row, 1).nan
    /\ PrintedOf(row, 2).nan
    /\ AnswerOf(row, 1) # <<>>
    /\ AnswerOf(row, 2) # <<>>
    /\ \A n \in QSet(answers) :
          /\ Lookup(answers, n) # AnswerOf(row, 1)
          /\ Lookup(answers, n) # AnswerOf(row, 2)

\* the cell's text contains ANSWER, in any case
HeaderCell(cell) == includes(toUpperCase(getText(cell)), tANSWER)

\* the row read is one the loop passes over
PassedOver ==
    /\ pc = "rows"
    /\ rowCount' = rowCount + 1
    /\ \/ Len(row') # 6
       \/ HeaderCell(row'[3])
       \/ HeaderCell(row'[6])

\* C27: a row without exactly six cells, or with ANSWER (in any case) in
\* its column 3 or column 6 text, changes neither the answer map nor either
\* sequential counter.
C27_SkippedRowFrame ==
    [][PassedOver => UNCHANGED <<answers, expectedQ1, expectedQ2>>]_vars

\* a header row with an answer in column 6, read with the first counter at
\* 19, left the one recorded answer and both counters as they were
C27_Witness ==
    /\ pc = "rows"
    /\ rowCount = 2
    /\ Len(row) = 6
    /\ HeaderCell(row[3])
    /\ AnswerOf(row, 2) # <<>>
    /\ QSet(answers) = {18}
    /\ expectedQ1 = 19
    /\ expectedQ2 = Group2Min

NoEmptyValue(m) == \A k \in 1..Len(m) : m[k].a # <<>>

\* the row read adds no identifier for a group whose answer cell is blank
BlankAddsNothing(group) ==
    (/\ pc = "rows"
     /\ rowCount' = rowCount + 1
     /\ Len(row') = 6
     /\ AnswerOf(row', group) = <<>>)
        => \A n \in AddedKeys : n < GroupLow(group) \/ n > GroupHigh(group)

\* C30: every value of the map is a non-empty string, as parsed from the
\* rows and after each pass of the correction under any key; a blank answer
\* cell produces no entry.
C30_NoEmptyAnswer ==
    [][/\ NoEmptyValue(answers')
       /\ NoEmptyValue(corrected')
       /\ \A group \in {1, 2} : BlankAddsNothing(group)]_vars

\* the last row printed a number beside a blank answer and left no entry;
\* the map then went through the three passes, which changed it
C30_Witness ==
    /\ pc = "done"
    /\ answerKey.given
    /\ ~SkippedRow(row)
    /\ AnswerOf(row, 1) = <<>>
    /\ ~PrintedOf(row, 1).nan
    /\ PrintedOf(row, 1).val \notin QSet(answers)
    /\ answers # <<>>
    /\ answers # raw

---------------------------------------------------------------------------
(* Properties of the three passes (SpecCorr)                               *)

\* the questions the scan of the third pass stops at
RECURSIVE ScanFrom(_, _, _)
ScanFrom(corr, key, q) ==
    IF q > MaxQuestion THEN {}
    ELSE {q} \cup ScanFrom(corr, key,
                           IF SplitAt(corr, key, q) THEN q + 2 ELSE q + 1)

\* the questions at which the third pass resolves a split
SplitsFound ==
    {q \in ScanFrom(corrected, answerKey, 1) : SplitAt(corrected, answerKey, q)}

ShiftRuns(k) ==
    /\ k < MaxQuestion
    /\ KeyText(answerKey, k) # <<>>
    /\ Lookup(corrected, k + 1) # <<>>

StartsWithAlt(k) ==
    MatchedAlts(KeyText(answerKey, k),
                normalizeForComparison(Lookup(corrected, k + 1))) # {}

ShiftMatches(k) ==
    \/ SimGT(calculateSimilarity(Lookup(corrected, k + 1),
                                 KeyText(answerKey, k)), ShiftThreshold)
    \/ StartsWithAlt(k)

\* the cascade that starts after the split at q reaches index k
CascadeAt(q, k) ==
    /\ k > q
    /\ \A s \in (q + 1)..k : ShiftRuns(s)
    /\ \A s \in (q + 1)..(k - 1) : ShiftMatches(s)

\* some cascade of the third pass reaches index k
InCascade(k) == \E q \in SplitsFound : CascadeAt(q, k)

\* the first alternative of question k's expected answer that cell k + 1
\* starts with
MatchedPrefix(k) ==
    Alternatives(KeyText(answerKey, k))
        [SetMin(MatchedAlts(KeyText(answerKey, k),
                            normalizeForComparison(Lookup(corrected, k + 1))))]

\* what cell k + 1 holds after as many characters as the prefix has
RemainderAt(k) ==
    trim(substring(Lookup(corrected, k + 1), Len(MatchedPrefix(k))))

HasRemainder(k) ==
    /\ StartsWithAlt(k)
    /\ MatchedPrefix(k) # <<>>
    /\ Len(normalizeForComparison(Lookup(corrected, k + 1)))
           > Len(MatchedPrefix(k))
    /\ RemainderAt(k) # <<>>

\* the remainder at cascade index k is close to question target's answer
RemainderFits(k, target) ==
    /\ KeyText(answerKey, target) # <<>>
    /\ ShiftRuns(k)
    /\ HasRemainder(k)
    /\ InCascade(k)
    /\ SimGT(calculateSimilarity(RemainderAt(k), KeyText(answerKey, target)),
             ShiftThreshold)

RemainderGives(k, target) ==
    RemainderFits(k, target)
        => Lookup(answers, target) = KeyText(answerKey, target)

\* C16 as stated: at cascade index k, when cell k+1 starts with an
\* alternative of question k's expected answer and a remainder is left, the
\* remainder is compared with the expected answer of question k+2, and above
\* 0.7 question k+2's slot is set to its expected text.
C16_RemainderNextNext ==
    (pc = "done" /\ answerKey.given)
        => \A k \in 1..MaxQuestion : RemainderGives(k, k + 2)

\* C16, amended: the remainder is compared with the expected answer of
\* question k+1, the question whose cell it was read from, and above 0.7
\* question k+1's slot is set to its expected text.
C16_RemainderNext ==
    (pc = "done" /\ answerKey.given)
        => \A k \in 1..MaxQuestion : RemainderGives(k, k + 1)

C16_Witness ==
    /\ pc = "done"
    /\ answerKey.given
    /\ \E k \in 1..MaxQuestion :
          /\ RemainderFits(k, k + 1)
          /\ Lookup(corrected, k + 1) # KeyText(answerKey, k + 1)
          /\ Lookup(answers, k + 1) = KeyText(answerKey, k + 1)

\* the engine changed the slot of question n, and to the expected text of
\* key entry i, which no other entry shares
SetToEntry(n, i) ==
    /\ KeyText(answerKey, i) # <<>>
    /\ \A j \in DOMAIN answerKey.map :
          answerKey.map[j] = answerKey.map[i] => j = i
    /\ Lookup(answers, n) = KeyText(answerKey, i)
    /\ Lookup(raw, n) # KeyText(answerKey, i)

\* C17: after the three passes no two different questions have both had
\* their slots set by the engine to the expected text of one key entry.
C17_EntryUsedOnce ==
    (pc = "done" /\ answerKey.given)
        => \A i \in DOMAIN answerKey.map :
              \A n, m \in QSet(answers) :
                  (SetToEntry(n, i) /\ SetToEntry(m, i)) => n = m

NoRepeatedKey(m) == Cardinality(QSet(m)) = Len(m)

\* C18: the corrected map has exactly the question identifiers of the raw
\* map: no pass adds an identifier and no pass removes one.
C18_KeySetPreserved ==
    /\ pc \in {"pass2", "pass3", "done"}
          => QSet(corrected) = QSet(raw) /\ NoRepeatedKey(corrected)
    /\ pc = "done" => QSet(answers) = QSet(raw) /\ NoRepeatedKey(answers)

C18_Witness ==
    /\ pc = "done"
    /\ answerKey.given
    /\ corrected # raw
    /\ SplitsFound # {}
    /\ answers # corrected
    /\ QSet(raw) # FirstSong..MaxQuestion
    /\ QSet(answers) = QSet(raw)

\* similarity of the text pass 2 finds in slot k with its key entry
SlotSimilarity(k) ==
    calculateSimilarity(corrected[k].a, KeyText(answerKey, corrected[k].q))

SameNormalized(k) ==
    normalizeForComparison(corrected[k].a)
        = normalizeForComparison(KeyText(answerKey, corrected[k].q))

\* some key entry within offsets -3..+3 of slot k's question matches its
\* text with similarity above 0.85
NeighbourMatches(k) ==
    \E offset \in ((0 - 3)..3) \ {0} :
        /\ KeyText(answerKey, corrected[k].q + offset) # <<>>
        /\ SimGT(calculateSimilarity(corrected[k].a,
                                     KeyText(answerKey, corrected[k].q + offset)),
                 HighThreshold)

\* what the claim lets pass 2 do to slot k
FuzzySlot(k) ==
    /\ corrected'[k].q = corrected[k].q
    /\ IF /\ KeyText(answerKey, corrected[k].q) # <<>>
          /\ SimGE(SlotSimilarity(k), HighThreshold)
          /\ ~SameNormalized(k)
       THEN corrected'[k].a = KeyText(answerKey, corrected[k].q)
       ELSE corrected'[k].a = corrected[k].a

\* C20: pass 2 changes the slot of question q only when the similarity of
\* its text with key_q is at least 0.85, and then to key_q's text (not at
\* all when the normalized forms are equal); below 0.85 the slot stays as it
\* was, neighbour match or not; no other question's slot is touched.
C20_FuzzyPassFrame ==
    [][pc = "pass2"
          => /\ Len(corrected') = Len(corrected)
             /\ \A k \in 1..Len(corrected) : FuzzySlot(k)]_vars

\* after pass 2: one slot corrected, one left in the ambiguous zone, one
\* left below 0.5 although a neighbouring entry matches
C20_Witness ==
    /\ pc = "pass3"
    /\ Lookup(raw, 38) = FuzzyTexts[38]
    /\ Lookup(corrected, 38) = SongOf(38)
    /\ \E k \in 1..Len(corrected) :
          /\ SimGE(SlotSimilarity(k), LowThreshold)
          /\ ~SimGE(SlotSimilarity(k), HighThreshold)
          /\ corrected[k].a = Lookup(raw, corrected[k].q)
    /\ \E k \in 1..Len(corrected) :
          /\ ~SimGE(SlotSimilarity(k), LowThreshold)
          /\ NeighbourMatches(k)
          /\ corrected[k].a = Lookup(raw, corrected[k].q)
    /\ \E k \in 1..Len(corrected) :
          /\ SameNormalized(k)
          /\ corrected[k].a # KeyText(answerKey, corrected[k].q)

\* text holds key entry i's answer followed by the answer of a later entry
MergePattern(text, i) ==
    LET normalized == normalizeForComparison(text)
        normalizedCorrect == normalizeForComparison(KeyText(answerKey, i))
        remainder == substring(normalized, Len(normalizedCorrect))
    IN  /\ KeyText(answerKey, i) # <<>>
        /\ startsWith(normalized, normalizedCorrect)
        /\ Len(normalized) > Len(normalizedCorrect)
        /\ \E j \in (i + 1)..MaxQuestion :
              /\ KeyText(answerKey, j) # <<>>
              /\ \/ remainder = normalizeForComparison(KeyText(answerKey, j))
                 \/ SimGT(calculateSimilarity(
                              remainder,
                              normalizeForComparison(KeyText(answerKey, j))),
                          MergeThreshold)

\* pass 1 resolved the merge in slot k with key entry i
MergedWith(k, i) ==
    /\ MergePattern(answers[k].a, i)
    /\ corrected'[k].a = KeyText(answerKey, i)

\* C21: pass 1 writes a slot only for a merge found in that slot's own
\* cell, setting it to the text of the first half's key entry i, and marks
\* only such entries i as assigned; the slot of the second half's question
\* and every other slot are left as extracted.
C21_MergePassFrame ==
    [][pc = "pass1"
          => /\ Len(corrected') = Len(answers)
             /\ \A k \in 1..Len(answers) :
                   /\ corrected'[k].q = answers[k].q
                   /\ \/ corrected'[k].a = answers[k].a
                      \/ \E i \in usedAnswers' : MergedWith(k, i)
             /\ \A i \in usedAnswers' :
                   \E k \in 1..Len(answers) : MergedWith(k, i)]_vars

\* after pass 1: the merged cell of Q36 resolved with entry Q36, Q37 and all
\* other slots as extracted, Q37 not marked
C21_Witness ==
    /\ pc = "pass2"
    /\ Lookup(raw, 36) = tBACK_STABBERS
    /\ Lookup(corrected, 36) = wBACK
    /\ usedAnswers = {36}
    /\ KeyText(answerKey, 37) = wSTABBERS
    /\ \A n \in QSet(raw) \ {36} : Lookup(corrected, n) = Lookup(raw, n)

\* the text pass 3 finds in slot q is a strict prefix, longer than 3, of
\* key_q, both normalized
FragmentOf(q) ==
    LET normalized == normalizeForComparison(Lookup(corrected, q))
        normalizedExpected == normalizeForComparison(KeyText(answerKey, q))
    IN  /\ startsWith(normalizedExpected, normalized)
        /\ Len(normalized) < Len(normalizedExpected)
        /\ Len(normalized) > 3

\* the next cell equals or starts with what is missing from key_q
NextHoldsRest(q) ==
    LET rest == substring(normalizeForComparison(KeyText(answerKey, q)),
                          Len(normalizeForComparison(Lookup(corrected, q))))
        normalizedNext == normalizeForComparison(Lookup(corrected, q + 1))
    IN  normalizedNext = rest \/ startsWith(normalizedNext, rest)

SplitStated(q) == FragmentOf(q) /\ NextHoldsRest(q)

\* the questions the scan evaluates: one is passed over after each split
RECURSIVE EvaluatedFrom(_)
EvaluatedFrom(q) ==
    IF q > MaxQuestion THEN {}
    ELSE {q} \cup EvaluatedFrom(IF SplitStated(q) THEN q + 2 ELSE q + 1)

SplitsStated == {q \in EvaluatedFrom(1) : SplitStated(q)}

\* C22: a question the pass 3 scan evaluates whose text is a strict prefix
\* (longer than 3) of its key text, with the next cell equal to or starting
\* with the rest, ends with its key text; a prefix of 3 or less or a next
\* cell that does not match causes no change: every slot pass 3 changes lies
\* at or after such a split.
C22_SplitDetection ==
    (pc = "done" /\ answerKey.given)
        => /\ \A q \in SplitsStated :
                 Lookup(answers, q) = KeyText(answerKey, q)
           /\ \A n \in QSet(corrected) :
                 Lookup(answers, n) # Lookup(corrected, n)
                     => \E q \in SplitsStated : q <= n

\* a four-character fragment was completed from the next cell
C22_Witness ==
    /\ pc = "done"
    /\ Lookup(corrected, 36) = <<"C", "R", "U", "E">>
    /\ 36 \in SplitsStated
    /\ Lookup(answers, 36) = SongOf(36)

\* pass 3 changed the slot of question n
ChangedByPass3(n) == Lookup(answers, n) # Lookup(corrected, n)

\* a cascade that has not halted before n shifts at n, or the remainder
\* found at n - 1 is given to n
ShiftedInCascade(n) ==
    \/ \E q \in SplitsFound : CascadeAt(q, n) /\ ShiftMatches(n)
    \/ RemainderFits(n - 1, n)

\* C23: the cascade stops at the first index k where the next cell neither
\* has similarity above 0.7 with question k's expected answer nor starts
\* with one of its alternatives, or where either text is missing; it shifts
\* at no index after k, even where later cells would match: every slot
\* pass 3 changes is a split start or lies in a cascade before its halt.
C23_CascadeHalts ==
    (pc = "done" /\ answerKey.given)
        => \A n \in QSet(corrected) :
              ChangedByPass3(n) => (n \in SplitsFound \/ ShiftedInCascade(n))

\* the cascade from Q36 shifted Q37, halted at 38, and left Q39 alone although
\* cell 40 matches Q39's expected answer
C23_Witness ==
    /\ pc = "done"
    /\ answerKey.given
    /\ 36 \in SplitsFound
    /\ ChangedByPass3(37)
    /\ ShiftRuns(38)
    /\ ~ShiftMatches(38)
    /\ ShiftRuns(39)
    /\ ShiftMatches(39)
    /\ Lookup(corrected, 39) # KeyText(answerKey, 39)
    /\ ~ChangedByPass3(39)

\* C24: after a split is resolved at question q the scan does not take
\* q+1 as a split start, even when its cell is a fragment completed by the
\* cell after it; the scan goes on at q+2, and the splits it finds from
\* there on are resolved.
C24_ScanResumes ==
    (pc = "done" /\ answerKey.given)
        => \A q \in SplitsStated :
              /\ (SplitStated(q + 1) /\ ~ShiftedInCascade(q + 1))
                     => ~ChangedByPass3(q + 1)
              /\ \A p \in (q + 2)..MaxQuestion :
                     (p \in EvaluatedFrom(q + 2) /\ SplitStated(p))
                         => Lookup(answers, p) = KeyText(answerKey, p)

\* Q36 resolved, Q37 passed over although it reads as a split, Q40 resolved
C24_Witness ==
    /\ pc = "done"
    /\ answerKey.given
    /\ 36 \in SplitsStated
    /\ SplitStated(37)
    /\ ~ChangedByPass3(37)
    /\ 40 \in EvaluatedFrom(38)
    /\ SplitStated(40)
    /\ ChangedByPass3(40)
    /\ Lookup(answers, 40) = KeyText(answerKey, 40)

\* the raw text of question n reads as a merge that starts with some entry
MergeApplies(n) ==
    \E i \in 1..MaxQuestion : MergePattern(Lookup(raw, n), i)

\* the raw text of question n is close to key_n without matching it
FuzzyApplies(n) ==
    /\ KeyText(answerKey, n) # <<>>
    /\ SimGE(calculateSimilarity(Lookup(raw, n), KeyText(answerKey, n)),
             HighThreshold)
    /\ normalizeForComparison(Lookup(raw, n))
           # normalizeForComparison(KeyText(answerKey, n))

NoCorrectionApplies(n) ==
    /\ ~MergeApplies(n)
    /\ ~FuzzyApplies(n)
    /\ n \notin SplitsFound
    /\ ~ShiftedInCascade(n)

UncorrectedKept ==
    (pc = "done" /\ answerKey.given)
        => \A n \in QSet(raw) :
              NoCorrectionApplies(n) => Lookup(answers, n) = Lookup(raw, n)

\* C28: for every answer map and key, the empty map, keys with missing or
\* empty entries and answers that normalize to the empty string included,
\* the three passes run to their end and return a map, and every slot to
\* which no correction applies holds its extracted text.
C28_AlwaysReturns == <>(pc = "done") /\ []UncorrectedKept

\* a sheet with cells of punctuation only, under a key with an entry missing,
\* came back with those cells as extracted
C28_Witness ==
    /\ pc = "done"
    /\ answerKey.given
    /\ KeyText(answerKey, 38) = <<>>
    /\ \E n \in QSet(raw) :
          /\ Lookup(raw, n) # <<>>
          /\ normalizeForComparison(Lookup(raw, n)) = <<>>
          /\ NoCorrectionApplies(n)
          /\ Lookup(answers, n) = Lookup(raw, n)

\* text is the verbatim text of some entry of the answer key
KeyEntryText(text) == \E i \in DOMAIN answerKey.map : answerKey.map[i] = text

\* C29: every value of the corrected map is the extracted text of its own
\* question or the verbatim text of a key entry: pass 1 leaves a slot as it
\* was or writes some key entry's text, pass 2 and pass 3 leave a slot as it
\* was or write the key text of that same question.
C29_ValuesFromRawOrKey ==
    [][/\ pc = "pass1"
          => \A k \in 1..Len(answers) :
                \/ corrected'[k].a = answers[k].a
                \/ KeyEntryText(corrected'[k].a)
       /\ pc = "pass2"
          => \A k \in 1..Len(corrected) :
                \/ corrected'[k].a = corrected[k].a
                \/ corrected'[k].a = KeyText(answerKey, corrected[k].q)
       /\ pc = "pass3"
          => \A n \in QSet(answers') :
                \/ Lookup(answers', n) = Lookup(corrected, n)
                \/ Lookup(answers', n) = KeyText(answerKey, n)]_vars

\* pass 1 gave Q39 the text of entry Q38, pass 3 gave Q38 its own key text
C29_Witness ==
    /\ pc = "done"
    /\ answerKey.given
    /\ KeyText(answerKey, 38) # KeyText(answerKey, 39)
    /\ Lookup(raw, 39) # KeyText(answerKey, 38)
    /\ Lookup(corrected, 39) = KeyText(answerKey, 38)
    /\ Lookup(answers, 39) = KeyText(answerKey, 38)
    /\ Lookup(corrected, 38) # KeyText(answerKey, 38)
    /\ Lookup(answers, 38) = KeyText(answerKey, 38)

---------------------------------------------------------------------------
(* Properties of normalization and similarity (SpecSim)                    *)

LetterOrDigit(c) ==
    \/ c \in DigitSet
    \/ \E i \in 1..26 : c = UpperSeq[i] \/ c = LowerSeq[i]

SameModuloCase(c, d) ==
    \/ c = d
    \/ \E i \in 1..26 : {c, d} = {UpperSeq[i], LowerSeq[i]}

\* x and y differ only in letter case or in characters other than letters
\* and digits: read both left to right, passing over such characters
RECURSIVE CaseOrPunctVariant(_, _)
CaseOrPunctVariant(x, y) ==
    IF x # <<>> /\ ~LetterOrDigit(Head(x)) THEN CaseOrPunctVariant(Tail(x), y)
    ELSE IF y # <<>> /\ ~LetterOrDigit(Head(y))
         THEN CaseOrPunctVariant(x, Tail(y))
    ELSE IF x = <<>> \/ y = <<>> THEN x = <<>> /\ y = <<>>
    ELSE /\ SameModuloCase(Head(x), Head(y))
         /\ CaseOrPunctVariant(Tail(x), Tail(y))

\* the number of '/'-separated parts of x that hold a letter or a digit
PartsWithContent(x) ==
    LET parts == split(x, "/")
    IN  Cardinality({i \in 1..Len(parts) :
                        \E k \in 1..Len(parts[i]) : LetterOrDigit(parts[i][k])})

\* C8 as stated: similarity(x, x) = 1.0 for every non-empty string x,
\* the '/' delimiter included.
C8_SelfSimilarityAnyText ==
    (pc = "compared" /\ str1 = str2 /\ str1 # <<>>) => IsOne(sim)

\* C8 amended: similarity(x, x) = 1.0 for every non-empty string x in which
\* at most one '/'-separated part holds a letter or a digit.
C8_SelfSimilarity ==
    (pc = "compared" /\ str1 = str2 /\ str1 # <<>> /\ PartsWithContent(str1) <= 1)
        => IsOne(sim)

C8_Witness ==
    /\ pc = "compared"
    /\ str1 = str2
    /\ \E i \in 1..Len(str1) : str1[i] = "/"
    /\ PartsWithContent(str1) = 1
    /\ IsOne(sim)

\* C9: similarity returns 0 whenever the normalized candidate is empty or
\* the normalized expected string is empty.
C9_EmptyGivesZero ==
    (pc = "compared" /\ (norm1 = <<>> \/ norm2 = <<>>)) => IsZero(sim)

\* C10: normalize is idempotent, and two strings that differ only in letter
\* case or in characters other than letters and digits normalize alike.
C10_NormalizeIdempotentInsensitive ==
    pc # "input" =>
        /\ normalizeForComparison(norm1) = norm1
        /\ normalizeForComparison(norm2) = norm2
        /\ CaseOrPunctVariant(str1, str2) => norm1 = norm2

C10_Witness ==
    /\ pc = "normalized"
    /\ str1 # str2
    /\ CaseOrPunctVariant(str1, str2)
    /\ Len(norm1) >= 2
    /\ \E i \in 1..Len(str1) : str1[i] = "a"
    /\ \E i \in 1..Len(str2) : str2[i] = "A"
    /\ norm1 = norm2

=============================================================================
